---- MODULE Spec2Model ----
(***************************************************************************)
(* TenantVoice: the case reducer, the App component's handlers and the     *)
(* collaborator calls they make, as a state machine.                       *)
(*                                                                         *)
(*   StoreSpec  the reducer driven by arbitrary dispatched actions and by  *)
(*              handleUpdateMeta (synchronous, no collaborator).           *)
(*   BuildSpec  the construction of an Issue from a classifier response,   *)
(*              as a function of (response, input text, today).            *)
(*   Spec       the App component: mount/load, reset, tabs, the issue      *)
(*              form, the file chooser, and the asynchronous handlers      *)
(*              with their calls in flight.                                *)
(*   FairSpec   Spec, where every awaited promise settles and the event    *)
(*              loop runs its continuation.                                *)
(*   PersistSpec  save, the save-status timer, reload of the page, edits   *)
(*              of the metadata and logged communications.                 *)
(*   EditSpec   Spec with the communication log, recording the edits made  *)
(*              while a call is in flight.                                 *)
(*   FormSpec   the communication form: its fields, the issue links and    *)
(*              the promise it may carry.                                  *)
(*   TimelineSpec  the TimelineChart effect: what it draws for the issues  *)
(*              and communications it is given.                            *)
(*   ResetSpec  Spec, recording at each confirmed reset the calls that     *)
(*              were in flight.                                            *)
(*   MetaSpec   handleUpdateMeta called from the closure of the latest     *)
(*              render or again from the closure of the call before.       *)
(*   SnapshotSpec  the App component with the save button and the          *)
(*              communication log next to the handlers that make calls.    *)
(***************************************************************************)
EXTENDS Integers, Sequences, FiniteSets, TLC

VARIABLES
    tenantCase,       \* useReducer state (App.tsx:56)
    storage,          \* localStorage item 'tenant_voice_case_data'
    phase,            \* "mounting" | "running" | "crashed", or the specification:
                      \* "store" | "build" | "timeline"
    activeTab,        \* App.tsx:57
    isAnalyzing,      \* App.tsx:58
    newIssueText,     \* App.tsx:62
    newIssueImage,    \* App.tsx:63
    reportData,       \* App.tsx:64, <<>> for null, <<r>> for a report
    uploadingIssueId, \* App.tsx:68, NoId for null
    dialogOpen,       \* the hidden file input's chooser is open
    inflight,         \* handler invocations suspended at an await
    nextCall,         \* number of collaborator calls started so far
    nextId,           \* number of uuidv4() values drawn so far
    lastDone,         \* history: None, or Some of the reply the last resumed
                      \* handler got and whether it raised alert()
    dispatched,       \* StoreSpec: the actions dispatched so far, in order
    built,            \* BuildSpec: <<>> or <<response, text, today, issue>>
    saveStatus,       \* App.tsx:59
    saveTimers,       \* pending setTimeout(() => setSaveStatus('idle'), 2000)
    commForm,         \* App.tsx:71-80, one field per useState of the form
    saved,            \* history: None, or Some of the Case the last save wrote
    edited,           \* history: None (not recorded), or Some of the kinds of
                      \* edit made while a call was in flight
    chart,            \* TimelineSpec: None, or Some of the inputs and the drawing
    preReset          \* history: None (not recorded), or Some of the numbers of
                      \* the calls that were in flight at a confirmed reset

vars == << tenantCase, storage, phase, activeTab, isAnalyzing, newIssueText,
           newIssueImage, reportData, uploadingIssueId, dialogOpen, inflight,
           nextCall, nextId, lastDone, dispatched, built, saveStatus,
           saveTimers, commForm, saved, edited, chart, preReset >>

auxVars == << saveStatus, saveTimers, commForm, saved, edited, chart, preReset >>

appVars == << storage, activeTab, isAnalyzing, newIssueText, newIssueImage,
              reportData, uploadingIssueId, dialogOpen, inflight, nextCall,
              nextId, lastDone >>

-----------------------------------------------------------------------------
(* Bounds *)

MaxDispatch == 3   \* StoreSpec: actions dispatched in one run
MaxCalls == 2      \* Spec: collaborator calls started in one run

-----------------------------------------------------------------------------
(* JavaScript values *)

NoId == 0          \* null in a string | null slot that holds an id
NoFile == "null"   \* null in the File | null slot
None == <<>>       \* null in an object | null slot
Some(v) == <<v>>

\* { ...a, ...b }
Spread(a, b) ==
    [k \in DOMAIN a \cup DOMAIN b |-> IF k \in DOMAIN b THEN b[k] ELSE a[k]]

\* [ ...s, e ]
SpreadAppend(s, e) == Append(s, e)

Last(s) == s[Len(s)]

IsPrefix(s, t) == Len(s) <= Len(t) /\ SubSeq(t, 1, Len(s)) = s

Today == "2024-03-01"                 \* new Date().toISOString().split('T')[0]
NowIso == "2024-03-01T09:00:00.000Z"  \* new Date().toISOString()

\* the communication form as first rendered (App.tsx:71-80)
EmptyCommForm ==
    [ commDate |-> Today, commMethod |-> "text", commMessage |-> "",
      commResponse |-> "", commLinkedIssues |-> <<>>, hasPromise |-> FALSE,
      promiseDesc |-> "", promiseDate |-> "" ]

\* the state outside the reducer and the issue form, as first rendered
\* history of an edit of the given kind, where the run records it
NoteEdit(kind) ==
    IF edited = None \/ inflight = {} THEN edited ELSE Some(edited[1] \cup {kind})

\* the history of resets, where it is recorded
NoteReset(confirmed) ==
    IF preReset = None \/ ~confirmed THEN preReset
    ELSE Some(preReset[1] \cup { c.n : c \in inflight })

AuxInit ==
    /\ saveStatus = "idle"
    /\ saveTimers = 0
    /\ commForm = EmptyCommForm
    /\ saved = None
    /\ edited = None
    /\ chart = None
    /\ preReset = None

-----------------------------------------------------------------------------
(* constants.ts, types.ts *)

EMPTY_CASE ==
    [ meta |-> [ id |-> "",
                 property_address |-> "",
                 landlord_contact |->
                     [name |-> "", phone |-> "", email |-> "", other |-> ""],
                 lease |-> [start_date |-> "", end_date |-> ""] ],
      issues |-> <<>>,
      evidence |-> <<>>,
      communications |-> <<>> ]

CaseKeys == {"meta", "issues", "evidence", "communications"}

\* A value is usable as a TenantCase by the render when it has the four parts.
IsCase(v) == CaseKeys \subseteq DOMAIN v

-----------------------------------------------------------------------------
(* The reducer *)

\* as if ADD_ISSUE did not spread the previous state
MutReducerAddIssueDropsState(state, action) ==
    CASE action.type = "UPDATE_META" ->
           Spread(state, [meta |-> Spread(state.meta, action.payload)])
      [] action.type = "ADD_ISSUE" ->
           Spread(EMPTY_CASE, [issues |-> SpreadAppend(state.issues, action.payload)])
      [] action.type = "ADD_EVIDENCE" ->
           Spread(state, [evidence |-> SpreadAppend(state.evidence, action.payload)])
      [] action.type = "ADD_COMMUNICATION" ->
           Spread(state, [communications |->
                            SpreadAppend(state.communications, action.payload)])
      [] action.type = "LOAD_CASE" -> action.payload
      [] action.type = "RESET_CASE" -> EMPTY_CASE
      [] OTHER -> state

MutReducerPrepend(state, action) ==
    CASE action.type = "UPDATE_META" ->
           Spread(state, [meta |-> Spread(state.meta, action.payload)])
      [] action.type = "ADD_ISSUE" ->
           Spread(state, [issues |-> <<action.payload>> \o state.issues])
      [] action.type = "ADD_EVIDENCE" ->
           Spread(state, [evidence |-> <<action.payload>> \o state.evidence])
      [] action.type = "ADD_COMMUNICATION" ->
           Spread(state, [communications |->
                            <<action.payload>> \o state.communications])
      [] action.type = "LOAD_CASE" -> action.payload
      [] action.type = "RESET_CASE" -> EMPTY_CASE
      [] OTHER -> state

MutReducerResetKeepsMeta(state, action) ==
    CASE action.type = "UPDATE_META" ->
           Spread(state, [meta |-> Spread(state.meta, action.payload)])
      [] action.type = "ADD_ISSUE" ->
           Spread(state, [issues |-> SpreadAppend(state.issues, action.payload)])
      [] action.type = "ADD_EVIDENCE" ->
           Spread(state, [evidence |-> SpreadAppend(state.evidence, action.payload)])
      [] action.type = "ADD_COMMUNICATION" ->
           Spread(state, [communications |->
                            SpreadAppend(state.communications, action.payload)])
      [] action.type = "LOAD_CASE" -> action.payload
      [] action.type = "RESET_CASE" -> Spread(EMPTY_CASE, [meta |-> state.meta])
      [] OTHER -> state

caseReducer(state, action) ==
    CASE action.type = "UPDATE_META" ->
           Spread(state, [meta |-> Spread(state.meta, action.payload)])
      [] action.type = "ADD_ISSUE" ->
           Spread(state, [issues |-> SpreadAppend(state.issues, action.payload)])
      [] action.type = "ADD_EVIDENCE" ->
           Spread(state, [evidence |-> SpreadAppend(state.evidence, action.payload)])
      [] action.type = "ADD_COMMUNICATION" ->
           Spread(state, [communications |->
                            SpreadAppend(state.communications, action.payload)])
      [] action.type = "LOAD_CASE" -> action.payload
      [] action.type = "RESET_CASE" -> EMPTY_CASE
      [] OTHER -> state

\* dispatch() calls made in one continuation are applied in order.
RECURSIVE ApplyAll(_, _)
ApplyAll(state, actions) ==
    IF actions = <<>> THEN state
    ELSE ApplyAll(caseReducer(state, Head(actions)), Tail(actions))

-----------------------------------------------------------------------------
(* handleUpdateMeta *)

MetaFields ==
    { <<"property_address">>,
      <<"lease", "start_date">>, <<"lease", "end_date">>,
      <<"landlord_contact", "name">>, <<"landlord_contact", "phone">>,
      <<"landlord_contact", "email">> }

\* field.split('.'): the model holds a dotted field name already split.
MutUpdateMetaSparse(rendered, field, value) ==
    IF Len(field) = 2
    THEN [ type |-> "UPDATE_META",
           payload |-> [p \in {field[1]} |-> [c \in {field[2]} |-> value]] ]
    ELSE [ type |-> "UPDATE_META", payload |-> [p \in {field[1]} |-> value] ]

UpdateMetaAction(rendered, field, value) ==
    IF Len(field) = 2
    THEN [ type |-> "UPDATE_META",
           payload |-> [p \in {field[1]} |->
                          Spread(rendered.meta[field[1]],
                                 [c \in {field[2]} |-> value])] ]
    ELSE [ type |-> "UPDATE_META", payload |-> [p \in {field[1]} |-> value] ]

-----------------------------------------------------------------------------
(* StoreSpec: the reducer and handleUpdateMeta under arbitrary call sequences *)

SampleIssue(id, title) ==
    [ id |-> id, title |-> title, category |-> "Plumbing", room |-> "Bathroom",
      severity |-> "high", status |-> "ongoing",
      first_noticed_at |-> "2024-01-01", description |-> "water on the floor",
      habitability_categories |-> <<"Essential services">> ]

SampleEvidence(id, issueId) ==
    [ id |-> id, issue_id |-> issueId, file_reference |-> "data:image/png;base64,AAAA",
      captured_at |-> "2024-03-01T00:00:00.000Z",
      uploaded_at |-> "2024-03-01T00:00:00.000Z",
      ai_caption |-> "Evidence image", user_caption |-> "" ]

SampleCommunication(id, linked) ==
    [ id |-> id, date |-> "2024-02-01", method |-> "text",
      tenant_message |-> "please fix", landlord_response |-> "",
      linked_issue_ids |-> linked, promises |-> <<>> ]

SampleCase ==
    [ meta |-> [ id |-> "",
                 property_address |-> "1 Main St",
                 landlord_contact |->
                     [name |-> "Bob", phone |-> "", email |-> "b@x", other |-> ""],
                 lease |-> [start_date |-> "2023-01-01", end_date |-> ""] ],
      issues |-> << SampleIssue(101, "Leak"), SampleIssue(104, "No heat") >>,
      evidence |-> << SampleEvidence(102, 101) >>,
      communications |-> << SampleCommunication(103, <<101>>) >> ]

\* The actions the Action type admits (payload: any for UPDATE_META).
StoreActions ==
    { [type |-> "ADD_ISSUE", payload |-> SampleIssue(1, "Leak")],
      [type |-> "ADD_ISSUE", payload |-> SampleIssue(1, "Mold")],
      [type |-> "ADD_EVIDENCE", payload |-> SampleEvidence(2, 1)],
      [type |-> "ADD_EVIDENCE", payload |-> SampleEvidence(2, 5)],
      [type |-> "ADD_COMMUNICATION", payload |-> SampleCommunication(3, <<>>)],
      [type |-> "ADD_COMMUNICATION", payload |-> SampleCommunication(3, <<1>>)],
      [type |-> "UPDATE_META", payload |-> [property_address |-> "2 Side St"]],
      [type |-> "UPDATE_META", payload |-> [landlord_contact |-> [phone |-> "555"]]],
      [type |-> "UPDATE_META", payload |-> [lease |-> [end_date |-> "2025-01-01"]]],
      [type |-> "SET_REPORT",
       payload |-> [snippet |-> "s", timeline |-> "t", pattern |-> "p"]],
      [type |-> "LOAD_CASE", payload |-> SampleCase],
      [type |-> "RESET_CASE"] }

MetaValues == {"Bob", "555"}

StoreInit ==
    /\ tenantCase = EMPTY_CASE
    /\ dispatched = <<>>
    /\ phase = "store"
    /\ storage = [syntax |-> "none"]
    /\ activeTab = "meta"
    /\ isAnalyzing = FALSE
    /\ newIssueText = ""
    /\ newIssueImage = NoFile
    /\ reportData = None
    /\ uploadingIssueId = NoId
    /\ dialogOpen = FALSE
    /\ inflight = {}
    /\ nextCall = 0
    /\ nextId = 0
    /\ lastDone = None
    /\ built = <<>>
    /\ AuxInit

\* dispatch(a)
Dispatch(a) ==
    /\ Len(dispatched) < MaxDispatch
    /\ tenantCase' = caseReducer(tenantCase, a)
    /\ dispatched' = Append(dispatched, [action |-> a, call |-> <<>>])
    /\ UNCHANGED << appVars, phase, built, auxVars >>

\* handleUpdateMeta(field, value), the closure holding the Case as rendered
StoreUpdateMeta(field, value) ==
    /\ Len(dispatched) < MaxDispatch
    /\ LET a == UpdateMetaAction(tenantCase, field, value) IN
         /\ tenantCase' = caseReducer(tenantCase, a)
         /\ dispatched' = Append(dispatched, [action |-> a, call |-> <<field, value>>])
    /\ UNCHANGED << appVars, phase, built, auxVars >>

StoreNext ==
    \/ \E a \in StoreActions : Dispatch(a)
    \/ \E f \in MetaFields, v \in MetaValues : StoreUpdateMeta(f, v)

StoreSpec == StoreInit /\ [][StoreNext]_vars

\* payloads of the dispatched actions of one type, in dispatch order
PayloadsOf(type) ==
    LET sel == SelectSeq(dispatched, LAMBDA d : d.action.type = type)
    IN  [i \in DOMAIN sel |-> sel[i].action.payload]

CountOf(type) ==
    Cardinality({i \in DOMAIN dispatched : dispatched[i].action.type = type})

NoReplace ==
    \A i \in DOMAIN dispatched :
        dispatched[i].action.type \notin {"LOAD_CASE", "RESET_CASE"}

\* C1: starting from the empty Case, after any sequence of addIssue /
\* addEvidence / addCommunication calls (metadata updates may be mixed in) each
\* collection has as many elements as there were calls of its kind, and holds
\* exactly the payloads of those calls in call order, repeated ids included.
C1_AppendInCallOrder ==
    NoReplace =>
        /\ Len(tenantCase.issues) = CountOf("ADD_ISSUE")
        /\ Len(tenantCase.evidence) = CountOf("ADD_EVIDENCE")
        /\ Len(tenantCase.communications) = CountOf("ADD_COMMUNICATION")
        /\ tenantCase.issues = PayloadsOf("ADD_ISSUE")
        /\ tenantCase.evidence = PayloadsOf("ADD_EVIDENCE")
        /\ tenantCase.communications = PayloadsOf("ADD_COMMUNICATION")

C1_Witness ==
    /\ NoReplace
    /\ Len(tenantCase.issues) = 2
    /\ tenantCase.issues[1].id = tenantCase.issues[2].id
    /\ tenantCase.issues[1].title = "Mold"
    /\ tenantCase.issues[2].title = "Leak"
    /\ Len(tenantCase.evidence) = 1

\* C2: whatever the Case was, right after reset() the three collections are
\* empty and the metadata is the fixed empty metadata.
C2_ResetYieldsEmpty ==
    (dispatched # <<>> /\ Last(dispatched).action.type = "RESET_CASE") =>
        /\ tenantCase.issues = <<>>
        /\ tenantCase.evidence = <<>>
        /\ tenantCase.communications = <<>>
        /\ tenantCase.meta.id = ""
        /\ tenantCase.meta.property_address = ""
        /\ tenantCase.meta.landlord_contact =
               [name |-> "", phone |-> "", email |-> "", other |-> ""]
        /\ tenantCase.meta.lease = [start_date |-> "", end_date |-> ""]
        /\ DOMAIN tenantCase = CaseKeys
        /\ DOMAIN tenantCase.meta = {"id", "property_address", "landlord_contact", "lease"}

C2_Witness ==
    /\ Len(dispatched) = 3
    /\ dispatched[1].action.type = "LOAD_CASE"
    /\ dispatched[2].action.type = "ADD_ISSUE"
    /\ dispatched[3].action.type = "RESET_CASE"
    /\ tenantCase.issues = <<>>

SubObjects == {"landlord_contact", "lease"}

-----------------------------------------------------------------------------
(* handleCreateIssue: the Issue built from the classifier's response *)

\* response.issue?.[f] || dflt, for a string field
OrDefault(response, f, dflt) ==
    IF "issue" \in DOMAIN response
       /\ f \in DOMAIN response.issue
       /\ response.issue[f] # ""
    THEN response.issue[f]
    ELSE dflt

\* response.issue?.habitability_categories || []  (an array is never falsy)
OrEmptyList(response, f) ==
    IF "issue" \in DOMAIN response /\ f \in DOMAIN response.issue
    THEN response.issue[f]
    ELSE <<>>

MutNewIssueDropsInput(response, text, id, today) ==
    [ id |-> id,
      title |-> OrDefault(response, "title", "New Issue"),
      category |-> OrDefault(response, "category", "General"),
      room |-> OrDefault(response, "room", "Unknown"),
      severity |-> OrDefault(response, "severity", "medium"),
      status |-> OrDefault(response, "status", "ongoing"),
      first_noticed_at |-> OrDefault(response, "first_noticed_at", today),
      description |-> OrDefault(response, "description", ""),
      habitability_categories |-> OrEmptyList(response, "habitability_categories") ]

NewIssue(response, text, id, today) ==
    [ id |-> id,
      title |-> OrDefault(response, "title", "New Issue"),
      category |-> OrDefault(response, "category", "General"),
      room |-> OrDefault(response, "room", "Unknown"),
      severity |-> OrDefault(response, "severity", "medium"),
      status |-> OrDefault(response, "status", "ongoing"),
      first_noticed_at |-> OrDefault(response, "first_noticed_at", today),
      description |-> OrDefault(response, "description", text),
      habitability_categories |-> OrEmptyList(response, "habitability_categories") ]

-----------------------------------------------------------------------------
(* BuildSpec: NewIssue over the classifier's possible responses *)

IssueStringFields ==
    {"title", "category", "room", "severity", "status", "first_noticed_at",
     "description"}

IssueFields == IssueStringFields \cup {"habitability_categories"}

\* What a response can carry in a field: option 1 and option 2 (0 is "omitted").
\* The free-text fields can come back as the empty string; the two enum fields
\* are constrained by responseSchema to their enum values.
FieldOption(f, n) ==
    CASE f = "title" -> IF n = 1 THEN "" ELSE "Ceiling mold"
      [] f = "category" -> IF n = 1 THEN "" ELSE "Mold"
      [] f = "room" -> IF n = 1 THEN "" ELSE "Bedroom"
      [] f = "severity" -> IF n = 1 THEN "low" ELSE "emergency"
      [] f = "status" -> IF n = 1 THEN "resolved" ELSE "partial"
      [] f = "first_noticed_at" -> IF n = 1 THEN "" ELSE "2024-01-15"
      [] f = "description" -> IF n = 1 THEN "" ELSE "Black mold on the ceiling"
      [] f = "habitability_categories" ->
           IF n = 1 THEN <<>> ELSE <<"Potential health or safety concerns">>

IssuePartOf(choice) ==
    [f \in {g \in IssueFields : choice[g] # 0} |-> FieldOption(f, choice[f])]

BuildResponses ==
    { [disclaimer |-> ""] }
    \cup { [issue |-> IssuePartOf(c), disclaimer |-> ""] : c \in [IssueFields -> 0..2] }

BuildTexts == {"", "ceiling mold"}

Days == {"2024-03-01", "2024-03-02"}

BuildInit ==
    /\ built = <<>>
    /\ phase = "build"
    /\ tenantCase = EMPTY_CASE
    /\ dispatched = <<>>
    /\ storage = [syntax |-> "none"]
    /\ activeTab = "issues"
    /\ isAnalyzing = FALSE
    /\ newIssueText = ""
    /\ newIssueImage = NoFile
    /\ reportData = None
    /\ uploadingIssueId = NoId
    /\ dialogOpen = FALSE
    /\ inflight = {}
    /\ nextCall = 0
    /\ nextId = 0
    /\ lastDone = None
    /\ AuxInit

Build(response, text, today) ==
    /\ built' = << [ response |-> response, text |-> text, today |-> today,
                     issue |-> NewIssue(response, text, 1, today) ] >>
    /\ UNCHANGED << tenantCase, dispatched, phase, appVars, auxVars >>

BuildNext ==
    /\ built = <<>>
    /\ \E r \in BuildResponses, t \in BuildTexts, d \in Days : Build(r, t, d)

BuildSpec == BuildInit /\ [][BuildNext]_vars

IssueDefault(f, text, today) ==
    CASE f = "title" -> "New Issue"
      [] f = "category" -> "General"
      [] f = "room" -> "Unknown"
      [] f = "severity" -> "medium"
      [] f = "status" -> "ongoing"
      [] f = "first_noticed_at" -> today
      [] f = "description" -> text
      [] f = "habitability_categories" -> <<>>

Supplied(response, f) == "issue" \in DOMAIN response /\ f \in DOMAIN response.issue

SuppliedNonEmpty(response, f) ==
    /\ Supplied(response, f)
    /\ f \in IssueStringFields => response.issue[f] # ""

-----------------------------------------------------------------------------
(* JSON.stringify and JSON.parse of a TenantCase                            *)
(*                                                                         *)
(* A text is [syntax |-> "none"] (getItem returned null), "empty" (the      *)
(* empty string), "bad" (not JSON) or "json" with the document it denotes:  *)
(* an object is the sequence of its <<key, value>> members in the order     *)
(* written, an array is a sequence, a string is a string.                   *)

CaseKeyOrder == <<"meta", "issues", "evidence", "communications">>
MetaKeyOrder == <<"id", "property_address", "landlord_contact", "lease">>
ContactKeyOrder == <<"name", "phone", "email", "other">>
LeaseKeyOrder == <<"start_date", "end_date">>
IssueKeyOrder ==
    <<"id", "title", "category", "room", "severity", "status",
      "first_noticed_at", "description", "habitability_categories">>
EvidenceKeyOrder ==
    <<"id", "issue_id", "file_reference", "captured_at", "uploaded_at",
      "ai_caption", "user_caption">>
CommunicationKeyOrder ==
    <<"id", "date", "method", "tenant_message", "landlord_response",
      "linked_issue_ids", "promises">>
PromiseKeyOrder ==
    <<"id", "description", "promised_completion_date", "promised_by", "status">>

\* the members of an object, own properties only, in property order
Members(obj, order) ==
    LET ks == SelectSeq(order, LAMBDA k : k \in DOMAIN obj)
    IN  [i \in DOMAIN ks |-> <<ks[i], obj[ks[i]]>>]

\* the object a member list denotes (a repeated key keeps its last value)
ObjectOf(members) ==
    [k \in {members[i][1] : i \in DOMAIN members} |->
        members[CHOOSE i \in DOMAIN members :
                    /\ members[i][1] = k
                    /\ \A j \in DOMAIN members : members[j][1] = k => j <= i][2]]

EachOf(seq, Op(_)) == [i \in DOMAIN seq |-> Op(seq[i])]

EncodeFlat(obj, order) == Members(obj, order)

EncodeMeta(m) ==
    Members([k \in DOMAIN m |->
                CASE k = "landlord_contact" -> Members(m[k], ContactKeyOrder)
                  [] k = "lease" -> Members(m[k], LeaseKeyOrder)
                  [] OTHER -> m[k]], MetaKeyOrder)

EncodeIssue(i) == Members(i, IssueKeyOrder)
EncodeEvidence(e) == Members(e, EvidenceKeyOrder)
EncodePromise(pr) == Members(pr, PromiseKeyOrder)

EncodeCommunication(c) ==
    Members([k \in DOMAIN c |->
                IF k = "promises" THEN EachOf(c[k], EncodePromise) ELSE c[k]],
            CommunicationKeyOrder)

EncodeCase(c) ==
    Members([k \in DOMAIN c |->
                CASE k = "meta" -> EncodeMeta(c[k])
                  [] k = "issues" -> EachOf(c[k], EncodeIssue)
                  [] k = "evidence" -> EachOf(c[k], EncodeEvidence)
                  [] k = "communications" -> EachOf(c[k], EncodeCommunication)
                  [] OTHER -> c[k]], CaseKeyOrder)

\* as if the serializer left the communications out
MutStringifyDropsCommunications(c) ==
    [syntax |-> "json", doc |-> EncodeCase([c EXCEPT !.communications = << >>])]

JSONstringify(c) == [syntax |-> "json", doc |-> EncodeCase(c)]

DecodeMeta(d) ==
    LET o == ObjectOf(d)
    IN  [k \in DOMAIN o |->
            IF k \in {"landlord_contact", "lease"} THEN ObjectOf(o[k]) ELSE o[k]]

DecodeCommunication(d) ==
    LET o == ObjectOf(d)
    IN  [k \in DOMAIN o |->
            IF k = "promises" THEN EachOf(o[k], ObjectOf) ELSE o[k]]

DecodeCase(d) ==
    LET o == ObjectOf(d)
    IN  [k \in DOMAIN o |->
            CASE k = "meta" -> DecodeMeta(o[k])
              [] k = "issues" -> EachOf(o[k], ObjectOf)
              [] k = "evidence" -> EachOf(o[k], ObjectOf)
              [] k = "communications" -> EachOf(o[k], DecodeCommunication)
              [] OTHER -> o[k]]

\* JSON.parse(text): throws on text that is not JSON
JSONparse(text) ==
    IF text.syntax = "json"
    THEN [threw |-> FALSE, value |-> DecodeCase(text.doc)]
    ELSE [threw |-> TRUE, value |-> <<>>]

-----------------------------------------------------------------------------
(* The collaborators: what a call can come back with *)

\* A reply is the settled promise of ai.models.generateContent: rejected, or
\* resolved with response.text empty ("notext"), or with text that parses to
\* null (value None) or to an object (value Some(payload)).
ClassifierPayloads ==
    { [disclaimer |-> ""],
      [issue |-> [title |-> "Ceiling mold", severity |-> "emergency"],
       evidence_items |-> << [ai_caption |-> "Mold on ceiling"] >>,
       disclaimer |-> ""] }

ReportPayloads ==
    { [report_snippet |-> "# Notice", timeline_summary |-> "t", disclaimer |-> ""] }

FailedReplies ==
    { [kind |-> "reject"], [kind |-> "notext"], [kind |-> "json", value |-> None] }

RepliesTo(kind) ==
    FailedReplies \cup
    { [kind |-> "json", value |-> Some(pl)] :
        pl \in IF kind = "report" THEN ReportPayloads ELSE ClassifierPayloads }

\* geminiService.analyzeIssueWithEvidence / generateReport, from the reply on:
\* a rejection is rethrown, an empty text throws, otherwise the parsed text.
ServiceResult(reply) ==
    IF reply.kind = "json"
    THEN [threw |-> FALSE, value |-> reply.value]
    ELSE [threw |-> TRUE, value |-> None]

\* as if the handler read the response with response?.x
MutTryThrowsToleratesNull(reply) == ServiceResult(reply).threw

\* The handler's try block throws: the service threw, or the response is null
\* and the first property read on it raises a TypeError.
TryThrows(reply) ==
    ServiceResult(reply).threw \/ ServiceResult(reply).value = None

\* the response object as the handler reads its properties (null has none)
ResponseOf(reply) ==
    LET v == ServiceResult(reply).value IN IF v = None THEN << >> ELSE v[1]

\* fileToBase64(file): the data URL of the file
FileToBase64(file) == <<"data:", file>>

\* x || dflt on an optional string property of an object
PropOr(obj, f, dflt) ==
    IF f \in DOMAIN obj /\ obj[f] # "" THEN obj[f] ELSE dflt

-----------------------------------------------------------------------------
(* Spec: the App component *)

Tabs == {"meta", "issues", "comms", "report"}
IssueTexts == {"", "ceiling mold"}
IssueImages == {NoFile, "photo.jpg"}
AppMetaFields == { <<"landlord_contact", "phone">> }
AppMetaValues == {"555"}

InitialSnapshots ==
    { [syntax |-> "none"], [syntax |-> "bad"],
      [syntax |-> "json", doc |-> <<>>],
      JSONstringify(SampleCase) }

Init ==
    /\ tenantCase = EMPTY_CASE
    /\ storage \in InitialSnapshots
    /\ phase = "mounting"
    /\ activeTab = "meta"
    /\ isAnalyzing = FALSE
    /\ newIssueText = ""
    /\ newIssueImage = NoFile
    /\ reportData = None
    /\ uploadingIssueId = NoId
    /\ dialogOpen = FALSE
    /\ inflight = {}
    /\ nextCall = 0
    /\ nextId = 0
    /\ lastDone = None
    /\ dispatched = <<>>
    /\ built = <<>>
    /\ AuxInit

\* the ids of the IssueCards the issues tab shows
IssueIds(c) ==
    IF "issues" \in DOMAIN c THEN {c.issues[i].id : i \in DOMAIN c.issues} ELSE {}

\* The render reads these parts of the Case on each tab; reading a property of
\* undefined throws, and an error thrown while rendering unmounts the App.
RenderThrows(c, tab, report) ==
    CASE tab = "meta" ->
           ~("meta" \in DOMAIN c /\ {"landlord_contact", "lease"} \subseteq DOMAIN c.meta)
      [] tab = "issues" -> ~({"issues", "evidence", "communications"} \subseteq DOMAIN c)
      [] tab = "comms" -> ~({"issues", "communications"} \subseteq DOMAIN c)
      [] tab = "report" ->
           report # None /\ ~("meta" \in DOMAIN c /\ "landlord_contact" \in DOMAIN c.meta)

\* The user can act on the page: mounted, no modal file chooser in front of it.
Interactive == phase = "running" /\ ~dialogOpen

\* useEffect(..., []) at mount
LoadOnMount ==
    /\ phase = "mounting"
    /\ IF storage.syntax \in {"none", "empty"} \/ JSONparse(storage).threw
       THEN /\ tenantCase' = tenantCase
            /\ phase' = "running"
       ELSE /\ tenantCase' = caseReducer(tenantCase,
                                [type |-> "LOAD_CASE", payload |-> JSONparse(storage).value])
            /\ phase' = IF RenderThrows(tenantCase', activeTab, reportData)
                        THEN "crashed" ELSE "running"
    /\ UNCHANGED << appVars, dispatched, built, auxVars >>

SetActiveTab(tab) ==
    /\ Interactive
    /\ tab # activeTab
    /\ activeTab' = tab
    /\ UNCHANGED << tenantCase, storage, phase, isAnalyzing, newIssueText,
                    newIssueImage, reportData, uploadingIssueId, dialogOpen,
                    inflight, nextCall, nextId, lastDone, dispatched, built, auxVars >>

SetNewIssueText(text) ==
    /\ Interactive
    /\ activeTab = "issues"
    /\ text # newIssueText
    /\ newIssueText' = text
    /\ UNCHANGED << tenantCase, storage, phase, activeTab, isAnalyzing,
                    newIssueImage, reportData, uploadingIssueId, dialogOpen,
                    inflight, nextCall, nextId, lastDone, dispatched, built, auxVars >>

SetNewIssueImage(file) ==
    /\ Interactive
    /\ activeTab = "issues"
    /\ file # newIssueImage
    /\ newIssueImage' = file
    /\ UNCHANGED << tenantCase, storage, phase, activeTab, isAnalyzing,
                    newIssueText, reportData, uploadingIssueId, dialogOpen,
                    inflight, nextCall, nextId, lastDone, dispatched, built, auxVars >>

handleResetCase(confirmed) ==
    /\ Interactive
    /\ IF confirmed
       THEN /\ storage' = [syntax |-> "none"]
            /\ tenantCase' = caseReducer(tenantCase, [type |-> "RESET_CASE"])
            /\ activeTab' = "meta"
            /\ reportData' = None
       ELSE UNCHANGED << storage, tenantCase, activeTab, reportData >>
    /\ preReset' = NoteReset(confirmed)
    /\ UNCHANGED << phase, isAnalyzing, newIssueText, newIssueImage,
                    uploadingIssueId, dialogOpen, inflight, nextCall, nextId,
                    lastDone, dispatched, built, saveStatus, saveTimers,
                    commForm, saved, edited, chart >>

\* as if an edit of the metadata also wrote the snapshot
MutUpdateMetaAutosaves(field, value) ==
    /\ Interactive
    /\ activeTab = "meta"
    /\ tenantCase' = caseReducer(tenantCase, UpdateMetaAction(tenantCase, field, value))
    /\ storage' = JSONstringify(tenantCase')
    /\ edited' = NoteEdit("meta")
    /\ UNCHANGED << activeTab, isAnalyzing, newIssueText, newIssueImage, reportData,
                    uploadingIssueId, dialogOpen, inflight, nextCall, nextId,
                    lastDone, phase, dispatched, built, saveStatus, saveTimers,
                    commForm, saved, chart, preReset >>

handleUpdateMeta(field, value) ==
    /\ Interactive
    /\ activeTab = "meta"
    /\ tenantCase' = caseReducer(tenantCase, UpdateMetaAction(tenantCase, field, value))
    /\ edited' = NoteEdit("meta")
    /\ UNCHANGED << appVars, phase, dispatched, built, saveStatus, saveTimers,
                    commForm, saved, chart, preReset >>

\* History of the handler that resumed last: which handler, the reply it
\* resumed with and whether its catch block called alert(). (The call itself
\* is the one that left inflight in that step.)
Done(c, reply, alerted) ==
    Some([kind |-> c.kind, reply |-> reply, alerted |-> alerted])

\* A handler invocation suspended at its awaits, with what its closure holds.
Call(kind, text, image, issueId) ==
    [ n |-> nextCall + 1, kind |-> kind, text |-> text, image |-> image,
      issueId |-> issueId ]

\* "Analyze & Add": disabled={isAnalyzing || (!newIssueText && !newIssueImage)}
handleCreateIssue ==
    /\ Interactive
    /\ activeTab = "issues"
    /\ ~isAnalyzing
    /\ newIssueText # "" \/ newIssueImage # NoFile
    /\ nextCall < MaxCalls
    /\ isAnalyzing' = TRUE
    /\ inflight' = inflight \cup {Call("create", newIssueText, newIssueImage, NoId)}
    /\ nextCall' = nextCall + 1
    /\ UNCHANGED << tenantCase, storage, phase, activeTab, newIssueText,
                    newIssueImage, reportData, uploadingIssueId, dialogOpen,
                    nextId, lastDone, dispatched, built, auxVars >>

\* as if the evidence item did not depend on an image having been attached
MutCreateIssueActionsAnyEvidence(c, response) ==
    LET imageBase64 == FileToBase64(c.image)
        newIssue == NewIssue(response, c.text, nextId + 1, Today)
        withEvidence ==
            /\ "evidence_items" \in DOMAIN response
            /\ Len(response.evidence_items) > 0
    IN  << [type |-> "ADD_ISSUE", payload |-> newIssue] >>
        \o (IF withEvidence
            THEN << [ type |-> "ADD_EVIDENCE",
                      payload |->
                        [ id |-> nextId + 2,
                          issue_id |-> newIssue.id,
                          file_reference |-> imageBase64,
                          captured_at |-> NowIso,
                          uploaded_at |-> NowIso,
                          ai_caption |-> PropOr(response.evidence_items[1],
                                                "ai_caption", "Evidence image"),
                          user_caption |-> "" ] ] >>
            ELSE << >>)

CreateIssueActions(c, response) ==
    LET imageBase64 == FileToBase64(c.image)
        newIssue == NewIssue(response, c.text, nextId + 1, Today)
        withEvidence ==
            /\ c.image # NoFile
            /\ "evidence_items" \in DOMAIN response
            /\ Len(response.evidence_items) > 0
    IN  << [type |-> "ADD_ISSUE", payload |-> newIssue] >>
        \o (IF withEvidence
            THEN << [ type |-> "ADD_EVIDENCE",
                      payload |->
                        [ id |-> nextId + 2,
                          issue_id |-> newIssue.id,
                          file_reference |-> imageBase64,
                          captured_at |-> NowIso,
                          uploaded_at |-> NowIso,
                          ai_caption |-> PropOr(response.evidence_items[1],
                                                "ai_caption", "Evidence image"),
                          user_caption |-> "" ] ] >>
            ELSE << >>)

\* as if the result were applied to the Case of the first render instead of
\* the current one
MutCreateIssueResumeOverwrites(c, reply) ==
    /\ c \in inflight
    /\ c.kind = "create"
    /\ inflight' = inflight \ {c}
    /\ IF TryThrows(reply)
       THEN /\ lastDone' = Done(c, reply, TRUE)
            /\ UNCHANGED << tenantCase, nextId, newIssueText, newIssueImage >>
       ELSE LET actions == CreateIssueActions(c, ResponseOf(reply)) IN
            /\ tenantCase' = ApplyAll(EMPTY_CASE, actions)
            /\ nextId' = nextId + Len(actions)
            /\ newIssueText' = ""
            /\ newIssueImage' = NoFile
            /\ lastDone' = Done(c, reply, FALSE)
    /\ isAnalyzing' = FALSE
    /\ UNCHANGED << storage, phase, activeTab, reportData, uploadingIssueId,
                    dialogOpen, nextCall, dispatched, built, auxVars >>

\* handleCreateIssue from the awaits on: try / catch / finally
CreateIssueResume(c, reply) ==
    /\ c \in inflight
    /\ c.kind = "create"
    /\ inflight' = inflight \ {c}
    /\ IF TryThrows(reply)
       THEN /\ lastDone' = Done(c, reply, TRUE)
            /\ UNCHANGED << tenantCase, nextId, newIssueText, newIssueImage >>
       ELSE LET actions == CreateIssueActions(c, ResponseOf(reply)) IN
            /\ tenantCase' = ApplyAll(tenantCase, actions)
            /\ nextId' = nextId + Len(actions)
            /\ newIssueText' = ""
            /\ newIssueImage' = NoFile
            /\ lastDone' = Done(c, reply, FALSE)
    /\ isAnalyzing' = FALSE
    /\ UNCHANGED << storage, phase, activeTab, reportData, uploadingIssueId,
                    dialogOpen, nextCall, dispatched, built, auxVars >>

\* "Add Photo" on an IssueCard: disabled={isAnalyzing && uploadingIssueId === issue.id}
handleRequestAddEvidence(issueId) ==
    /\ Interactive
    /\ activeTab = "issues"
    /\ issueId \in IssueIds(tenantCase)
    /\ ~(isAnalyzing /\ uploadingIssueId = issueId)
    /\ uploadingIssueId' = issueId
    /\ dialogOpen' = TRUE
    /\ UNCHANGED << tenantCase, storage, phase, activeTab, isAnalyzing,
                    newIssueText, newIssueImage, reportData, inflight, nextCall,
                    nextId, lastDone, dispatched, built, auxVars >>

\* the chooser is dismissed and no change event fires
CancelFileDialog ==
    /\ phase = "running"
    /\ dialogOpen
    /\ dialogOpen' = FALSE
    /\ UNCHANGED << tenantCase, storage, phase, activeTab, isAnalyzing,
                    newIssueText, newIssueImage, reportData, uploadingIssueId,
                    inflight, nextCall, nextId, lastDone, dispatched, built, auxVars >>

\* onChange of the hidden file input, up to the first await
handleEvidenceUpload(file) ==
    /\ phase = "running"
    /\ dialogOpen
    /\ dialogOpen' = FALSE
    /\ IF file = NoFile \/ uploadingIssueId = NoId
       THEN /\ uploadingIssueId' = NoId
            /\ UNCHANGED << isAnalyzing, inflight, nextCall >>
       ELSE /\ nextCall < MaxCalls
            /\ isAnalyzing' = TRUE
            /\ inflight' = inflight \cup {Call("upload", "", file, uploadingIssueId)}
            /\ nextCall' = nextCall + 1
            /\ UNCHANGED uploadingIssueId
    /\ UNCHANGED << tenantCase, storage, phase, activeTab, newIssueText,
                    newIssueImage, reportData, nextId, lastDone, dispatched, built, auxVars >>

EvidenceUploadAction(c, response) ==
    LET caption ==
            IF "evidence_items" \in DOMAIN response /\ Len(response.evidence_items) > 0
            THEN PropOr(response.evidence_items[1], "ai_caption", "Uploaded evidence")
            ELSE "Uploaded evidence"
    IN  [ type |-> "ADD_EVIDENCE",
          payload |-> [ id |-> nextId + 1,
                        issue_id |-> c.issueId,
                        file_reference |-> FileToBase64(c.image),
                        captured_at |-> NowIso,
                        uploaded_at |-> NowIso,
                        ai_caption |-> caption,
                        user_caption |-> "" ] ]

\* as if the busy flag and the target were cleared at the end of the try
\* block instead of in finally
MutEvidenceUploadResumeStaysBusy(c, reply) ==
    /\ c \in inflight
    /\ c.kind = "upload"
    /\ inflight' = inflight \ {c}
    /\ IF TryThrows(reply)
       THEN /\ lastDone' = Done(c, reply, TRUE)
            /\ UNCHANGED << tenantCase, nextId, isAnalyzing, uploadingIssueId >>
       ELSE /\ tenantCase' = caseReducer(tenantCase,
                                EvidenceUploadAction(c, ResponseOf(reply)))
            /\ nextId' = nextId + 1
            /\ lastDone' = Done(c, reply, FALSE)
            /\ isAnalyzing' = FALSE
            /\ uploadingIssueId' = NoId
    /\ UNCHANGED << storage, phase, activeTab, newIssueText, newIssueImage,
                    reportData, dialogOpen, nextCall, dispatched, built, auxVars >>

\* handleEvidenceUpload from the awaits on: try / catch / finally
EvidenceUploadResume(c, reply) ==
    /\ c \in inflight
    /\ c.kind = "upload"
    /\ inflight' = inflight \ {c}
    /\ IF TryThrows(reply)
       THEN /\ lastDone' = Done(c, reply, TRUE)
            /\ UNCHANGED << tenantCase, nextId >>
       ELSE /\ tenantCase' = caseReducer(tenantCase,
                                EvidenceUploadAction(c, ResponseOf(reply)))
            /\ nextId' = nextId + 1
            /\ lastDone' = Done(c, reply, FALSE)
    /\ isAnalyzing' = FALSE
    /\ uploadingIssueId' = NoId
    /\ UNCHANGED << storage, phase, activeTab, newIssueText, newIssueImage,
                    reportData, dialogOpen, nextCall, dispatched, built, auxVars >>

\* "Generate Report": disabled={isAnalyzing}
handleGenerateReport ==
    /\ Interactive
    /\ activeTab = "report"
    /\ ~isAnalyzing
    /\ nextCall < MaxCalls
    /\ isAnalyzing' = TRUE
    /\ inflight' = inflight \cup {Call("report", "", NoFile, NoId)}
    /\ nextCall' = nextCall + 1
    /\ UNCHANGED << tenantCase, storage, phase, activeTab, newIssueText,
                    newIssueImage, reportData, uploadingIssueId, dialogOpen,
                    nextId, lastDone, dispatched, built, auxVars >>

\* as if the report held only the narrative fields the response has
MutReportOfReceivedOnly(response) ==
    LET names == [ report_snippet |-> "snippet", timeline_summary |-> "timeline",
                   pattern_summary |-> "pattern" ]
        got == { f \in DOMAIN names : f \in DOMAIN response /\ response[f] # "" }
    IN  [ k \in { names[f] : f \in got } |->
            response[CHOOSE f \in got : names[f] = k] ]

ReportOf(response) ==
    [ snippet |-> PropOr(response, "report_snippet", ""),
      timeline |-> PropOr(response, "timeline_summary", ""),
      pattern |-> PropOr(response, "pattern_summary", "") ]

\* as if setReportData ran in the finally block, on whatever was received
MutGenerateReportResumeStoresAlways(c, reply) ==
    /\ c \in inflight
    /\ c.kind = "report"
    /\ inflight' = inflight \ {c}
    /\ reportData' = Some(ReportOf(ResponseOf(reply)))
    /\ lastDone' = Done(c, reply, FALSE)
    /\ isAnalyzing' = FALSE
    /\ UNCHANGED << tenantCase, storage, phase, activeTab, newIssueText,
                    newIssueImage, uploadingIssueId, dialogOpen, nextCall,
                    nextId, dispatched, built, auxVars >>

\* handleGenerateReport from the await on: try / catch / finally
GenerateReportResume(c, reply) ==
    /\ c \in inflight
    /\ c.kind = "report"
    /\ inflight' = inflight \ {c}
    /\ IF TryThrows(reply)
       THEN UNCHANGED reportData
       ELSE reportData' = Some(ReportOf(ResponseOf(reply)))
    /\ lastDone' = Done(c, reply, FALSE)
    /\ isAnalyzing' = FALSE
    /\ UNCHANGED << tenantCase, storage, phase, activeTab, newIssueText,
                    newIssueImage, uploadingIssueId, dialogOpen, nextCall,
                    nextId, dispatched, built, auxVars >>

Next ==
    \/ LoadOnMount
    \/ \E tab \in Tabs : SetActiveTab(tab)
    \/ \E text \in IssueTexts : SetNewIssueText(text)
    \/ \E file \in IssueImages : SetNewIssueImage(file)
    \/ \E confirmed \in BOOLEAN : handleResetCase(confirmed)
    \/ \E f \in AppMetaFields, v \in AppMetaValues : handleUpdateMeta(f, v)
    \/ handleCreateIssue
    \/ \E c \in inflight : \E reply \in RepliesTo(c.kind) : CreateIssueResume(c, reply)
    \/ \E id \in IssueIds(tenantCase) : handleRequestAddEvidence(id)
    \/ CancelFileDialog
    \/ \E file \in IssueImages : handleEvidenceUpload(file)
    \/ \E c \in inflight : \E reply \in RepliesTo(c.kind) : EvidenceUploadResume(c, reply)
    \/ handleGenerateReport
    \/ \E c \in inflight : \E reply \in RepliesTo(c.kind) : GenerateReportResume(c, reply)

Spec == Init /\ [][Next]_vars

-----------------------------------------------------------------------------
(* Properties of Spec *)

BothCases == IsCase(tenantCase) /\ IsCase(tenantCase')

\* the calls whose handler resumed (and finished) in this step
Resumed == inflight \ inflight'

FailedReply(reply) ==
    \/ reply.kind \in {"reject", "notext"}
    \/ reply.kind = "json" /\ reply.value = None

\* the step is a confirmed reset as the user sees it
EmptiedByReset ==
    /\ tenantCase'.issues = <<>>
    /\ tenantCase'.evidence = <<>>
    /\ tenantCase'.communications = <<>>
    /\ storage' = [syntax |-> "none"]
    /\ reportData' = None
    /\ activeTab' = "meta"
    /\ inflight' = inflight

\* C4 (as claimed): an Issue once appended is never removed or changed: every
\* step leaves the issues sequence a prefix of the new issues sequence.
C4_IssuesOnlyGrow ==
    [][ (phase = "running" /\ BothCases) =>
            IsPrefix(tenantCase.issues, tenantCase'.issues) ]_vars

\* C4 (amended): an Issue once appended stays in the issues sequence,
\* unchanged and at the same position, until the user confirms a reset: every
\* step either leaves the issues sequence a prefix of the new one, or is a
\* confirmed reset, which replaces the whole Case by the empty Case; a handler
\* resuming from a collaborator call never removes or changes an Issue.
C4_IssuesOnlyGrowUntilReset ==
    [][ (phase = "running" /\ BothCases) =>
            /\ IsPrefix(tenantCase.issues, tenantCase'.issues) \/ EmptiedByReset
            /\ Resumed # {} => IsPrefix(tenantCase.issues, tenantCase'.issues) ]_vars

C4_Witness ==
    /\ phase = "running"
    /\ Len(tenantCase.issues) = 3
    /\ tenantCase.issues[1] = SampleIssue(101, "Leak")
    /\ tenantCase.issues[2] = SampleIssue(104, "No heat")
    /\ tenantCase.issues[3].id \notin {101, 104}
    /\ lastDone # None /\ lastDone[1].kind = "create"

\* C5: every EvidenceItem appended to the Case carries the id of an Issue that
\* is in the Case at that moment, whichever handler appends it and whatever
\* the user did while the classifier call was outstanding.
C5_EvidenceRefersToIssue ==
    [][ (phase = "running" /\ BothCases
         /\ Len(tenantCase'.evidence) > Len(tenantCase.evidence)) =>
            \A k \in (Len(tenantCase.evidence) + 1) .. Len(tenantCase'.evidence) :
                tenantCase'.evidence[k].issue_id \in IssueIds(tenantCase') ]_vars

\* C6: when the classifier call of handleCreateIssue or handleEvidenceUpload
\* fails (the request is rejected, or comes back with no text or with null),
\* the handler reports it with alert() and leaves the Case exactly as it is at
\* that moment: no Issue and no EvidenceItem is added; and a handler that
\* raises the alert has changed nothing in the Case (no Issue is left behind
\* by an attempt that ends in the error path).
C6_FailedCallLeavesCase ==
    [][ \A c \in Resumed :
            c.kind \in {"create", "upload"} =>
                /\ FailedReply(lastDone'[1].reply) =>
                       /\ tenantCase' = tenantCase
                       /\ lastDone'[1].alerted
                /\ lastDone'[1].alerted => tenantCase' = tenantCase ]_vars

C6_Witness ==
    /\ lastDone # None
    /\ lastDone[1].kind = "create"
    /\ lastDone[1].reply = [kind |-> "json", value |-> None]
    /\ lastDone[1].alerted
    /\ newIssueText = "ceiling mold"
    /\ tenantCase = EMPTY_CASE
    /\ inflight = {}

\* the intent of a call: the action that started it
Intent(c) == <<c.kind, c.issueId>>

\* C8: no two calls for the same intent (create issue, add evidence to one
\* given issue, generate report) are in flight at once.
C8_OneCallPerIntent ==
    \A c1, c2 \in inflight : Intent(c1) = Intent(c2) => c1 = c2

\* C9 (as claimed): after a ReportGenerator call fails no report data is held,
\* whatever report was held before the call.
C9_FailedReportShowsNone ==
    [][ \A c \in Resumed :
            (c.kind = "report" /\ FailedReply(lastDone'[1].reply)) =>
                reportData' = None ]_vars

\* C9 (amended): a failed ReportGenerator call leaves the report state exactly
\* as it was when the handler resumed: nothing new (and no partial report) is
\* stored; the pane is in the "not yet generated" state if no report was held,
\* and keeps showing the earlier report if one was.
C9_FailedReportKeepsReportData ==
    [][ \A c \in Resumed :
            (c.kind = "report" /\ FailedReply(lastDone'[1].reply)) =>
                /\ reportData' = reportData
                /\ ~lastDone'[1].alerted ]_vars

C9_Witness ==
    /\ lastDone # None
    /\ lastDone[1].kind = "report"
    /\ FailedReply(lastDone[1].reply)
    /\ reportData # None
    /\ nextCall = 2
    /\ inflight = {}

\* the persisted text denotes an object with the four parts of a Case
SnapshotIsCase(text) ==
    /\ text.syntax = "json"
    /\ CaseKeys \subseteq {text.doc[i][1] : i \in DOMAIN text.doc}

\* C10: the load at startup ends with the App running on a valid Case, the
\* empty Case when the snapshot is absent or does not deserialize to a valid
\* Case; and the active Case is a valid Case in every state after the load.
C10_LoadDegradesToEmpty ==
    [][ /\ phase = "mounting" =>
            /\ phase' = "running"
            /\ IsCase(tenantCase')
            /\ ~SnapshotIsCase(storage) => tenantCase' = EMPTY_CASE
        /\ phase = "running" => (phase' = "running" /\ IsCase(tenantCase')) ]_vars

-----------------------------------------------------------------------------
(* FairSpec: Spec where every awaited promise settles and its continuation  *)
(* is run by the event loop                                                 *)

InFlight(n) == \E c \in inflight : c.n = n

\* the handler suspended at call n resumes and runs to its end
Settle(n) ==
    \E c \in inflight :
        /\ c.n = n
        /\ \E reply \in RepliesTo(c.kind) :
              \/ CreateIssueResume(c, reply)
              \/ EvidenceUploadResume(c, reply)
              \/ GenerateReportResume(c, reply)

FairSpec == Spec /\ \A n \in 1..MaxCalls : WF_vars(Settle(n))

\* C20: every call started is followed by the end of its handler; and an
\* attempt that ends in failure leaves the busy flag cleared, the Case and the
\* issue form as they were, and (for an upload) no issue marked as uploading,
\* so that the button that started it is no longer held disabled.
C20_FailedAttemptCanBeRetried ==
    /\ \A n \in 1..MaxCalls : InFlight(n) ~> ~InFlight(n)
    /\ [][ \A c \in Resumed :
              FailedReply(lastDone'[1].reply) =>
                  /\ ~isAnalyzing'
                  /\ tenantCase' = tenantCase
                  /\ newIssueText' = newIssueText
                  /\ newIssueImage' = newIssueImage
                  /\ c.kind = "upload" => uploadingIssueId' = NoId ]_vars

\* A create-issue attempt was rejected: nothing is in flight, the flag is
\* clear, the description typed is still in the form and the button enabled.
C20_Witness ==
    /\ lastDone # None
    /\ lastDone[1].kind = "create"
    /\ lastDone[1].reply = [kind |-> "reject"]
    /\ nextCall = 1
    /\ inflight = {}
    /\ ~isAnalyzing
    /\ Interactive
    /\ activeTab = "issues"
    /\ newIssueText = "ceiling mold"

-----------------------------------------------------------------------------
(* The App outside the issue tab: the communication form, save, reload.     *)
(*                                                                         *)
(*   PersistSpec  page loads: mount and load, metadata edits, logged        *)
(*                communications, save, reset, reload.                      *)
(*   EditSpec     metadata edits and logged communications around a         *)
(*                create-issue call in flight.                              *)
(*   FormSpec     the communication form: message, issue links, promise.    *)

MaxIds == 3      \* uuidv4() values drawn by handleLogCommunication in one run
MaxTimers == 1   \* PersistSpec: save-status timers pending at one time

CommMessages == {"", "please fix"}
PromiseDescs == {"", "fix by Friday"}

SessionSnapshots == { [syntax |-> "none"], JSONstringify(SampleCase) }

PersistInit ==
    /\ tenantCase = EMPTY_CASE
    /\ storage \in SessionSnapshots
    /\ phase = "mounting"
    /\ activeTab = "meta"
    /\ isAnalyzing = FALSE
    /\ newIssueText = ""
    /\ newIssueImage = NoFile
    /\ reportData = None
    /\ uploadingIssueId = NoId
    /\ dialogOpen = FALSE
    /\ inflight = {}
    /\ nextCall = 0
    /\ nextId = 0
    /\ lastDone = None
    /\ dispatched = <<>>
    /\ built = <<>>
    /\ saveStatus = "idle"
    /\ saveTimers = 0
    /\ commForm = EmptyCommForm
    /\ saved = None
    /\ edited = None
    /\ chart = None
    /\ preReset = None

\* as PersistInit, with the history of edits during calls recorded
EditInit ==
    /\ tenantCase = EMPTY_CASE
    /\ storage \in SessionSnapshots
    /\ phase = "mounting"
    /\ activeTab = "meta"
    /\ isAnalyzing = FALSE
    /\ newIssueText = ""
    /\ newIssueImage = NoFile
    /\ reportData = None
    /\ uploadingIssueId = NoId
    /\ dialogOpen = FALSE
    /\ inflight = {}
    /\ nextCall = 0
    /\ nextId = 0
    /\ lastDone = None
    /\ dispatched = <<>>
    /\ built = <<>>
    /\ saveStatus = "idle"
    /\ saveTimers = 0
    /\ commForm = EmptyCommForm
    /\ saved = None
    /\ edited = Some({})
    /\ chart = None
    /\ preReset = None

\* the page is loaded again: every useState / useReducer starts over, pending
\* timers and suspended handlers are gone, localStorage stays
Reload ==
    /\ phase \in {"running", "crashed"}
    /\ phase' = "mounting"
    /\ tenantCase' = EMPTY_CASE
    /\ activeTab' = "meta"
    /\ isAnalyzing' = FALSE
    /\ newIssueText' = ""
    /\ newIssueImage' = NoFile
    /\ reportData' = None
    /\ uploadingIssueId' = NoId
    /\ dialogOpen' = FALSE
    /\ inflight' = {}
    /\ saveStatus' = "idle"
    /\ saveTimers' = 0
    /\ commForm' = EmptyCommForm
    /\ UNCHANGED << storage, nextCall, nextId, lastDone, dispatched, built,
                    saved, edited, chart, preReset >>

\* handleSaveCase; setItem throws when the quota is exceeded, and the
\* statements after it do not run
handleSaveCase(stored) ==
    /\ Interactive
    /\ saveTimers < MaxTimers
    /\ IF stored
       THEN /\ storage' = JSONstringify(tenantCase)
            /\ saveStatus' = "saved"
            /\ saveTimers' = saveTimers + 1
            /\ saved' = Some(tenantCase)
       ELSE UNCHANGED << storage, saveStatus, saveTimers, saved >>
    /\ UNCHANGED << tenantCase, phase, activeTab, isAnalyzing, newIssueText,
                    newIssueImage, reportData, uploadingIssueId, dialogOpen,
                    inflight, nextCall, nextId, lastDone, dispatched, built,
                    commForm, edited, chart, preReset >>

\* setTimeout(() => setSaveStatus('idle'), 2000) fires
SaveStatusTimeout ==
    /\ saveTimers > 0
    /\ saveTimers' = saveTimers - 1
    /\ saveStatus' = "idle"
    /\ UNCHANGED << tenantCase, storage, phase, activeTab, isAnalyzing,
                    newIssueText, newIssueImage, reportData, uploadingIssueId,
                    dialogOpen, inflight, nextCall, nextId, lastDone, dispatched,
                    built, commForm, saved, edited, chart, preReset >>

\* the frame of an event that only changes the communication form
CommFormOnly ==
    UNCHANGED << tenantCase, storage, phase, activeTab, isAnalyzing,
                 newIssueText, newIssueImage, reportData, uploadingIssueId,
                 dialogOpen, inflight, nextCall, nextId, lastDone, dispatched,
                 built, saveStatus, saveTimers, saved, edited, chart, preReset >>

SetCommMessage(text) ==
    /\ Interactive
    /\ activeTab = "comms"
    /\ text # commForm.commMessage
    /\ commForm' = [commForm EXCEPT !.commMessage = text]
    /\ CommFormOnly

SetHasPromise(checked) ==
    /\ Interactive
    /\ activeTab = "comms"
    /\ checked # commForm.hasPromise
    /\ commForm' = [commForm EXCEPT !.hasPromise = checked]
    /\ CommFormOnly

\* the description input is rendered while the box is checked
SetPromiseDesc(text) ==
    /\ Interactive
    /\ activeTab = "comms"
    /\ commForm.hasPromise
    /\ text # commForm.promiseDesc
    /\ commForm' = [commForm EXCEPT !.promiseDesc = text]
    /\ CommFormOnly

\* prev.includes(id) ? prev.filter(x => x !== id) : [...prev, id]
ToggleLink(prev, issueId) ==
    IF \E i \in DOMAIN prev : prev[i] = issueId
    THEN SelectSeq(prev, LAMBDA x : x # issueId)
    ELSE SpreadAppend(prev, issueId)

\* one toggle button per issue of the Case
handleToggleIssueLink(issueId) ==
    /\ Interactive
    /\ activeTab = "comms"
    /\ issueId \in IssueIds(tenantCase)
    /\ commForm' = [commForm EXCEPT
                       !.commLinkedIssues = ToggleLink(@, issueId)]
    /\ CommFormOnly

\* as if the promise were created whenever the box is checked
MutPromisesOfIgnoresDescription(form, id) ==
    IF form.hasPromise
    THEN << [ id |-> id, description |-> form.promiseDesc,
              promised_completion_date |-> form.promiseDate,
              promised_by |-> "Landlord", status |-> "unknown" ] >>
    ELSE << >>

\* const promises = hasPromise && promiseDesc ? [{...}] : []
PromisesOf(form, id) ==
    IF form.hasPromise /\ form.promiseDesc # ""
    THEN << [ id |-> id, description |-> form.promiseDesc,
              promised_completion_date |-> form.promiseDate,
              promised_by |-> "Landlord", status |-> "unknown" ] >>
    ELSE << >>

NewComm(form, promises, id) ==
    [ id |-> id, date |-> form.commDate, method |-> form.commMethod,
      tenant_message |-> form.commMessage,
      landlord_response |-> form.commResponse,
      linked_issue_ids |-> form.commLinkedIssues, promises |-> promises ]

\* "Log Interaction": disabled={!commMessage}
handleLogCommunication ==
    /\ Interactive
    /\ activeTab = "comms"
    /\ commForm.commMessage # ""
    /\ nextId + 2 <= MaxIds
    /\ LET promises == PromisesOf(commForm, nextId + 1)
           newComm == NewComm(commForm, promises, nextId + Len(promises) + 1)
       IN  /\ tenantCase' = caseReducer(tenantCase,
                                [type |-> "ADD_COMMUNICATION", payload |-> newComm])
           /\ nextId' = nextId + Len(promises) + 1
    /\ commForm' = [commForm EXCEPT !.commMessage = "", !.commResponse = "",
                                    !.commLinkedIssues = << >>,
                                    !.hasPromise = FALSE, !.promiseDesc = "",
                                    !.promiseDate = ""]
    /\ edited' = NoteEdit("comm")
    /\ UNCHANGED << storage, phase, activeTab, isAnalyzing, newIssueText,
                    newIssueImage, reportData, uploadingIssueId, dialogOpen,
                    inflight, nextCall, lastDone, dispatched, built, saveStatus,
                    saveTimers, saved, chart, preReset >>

PersistTabs == {"meta", "comms"}
EditTabs == {"meta", "issues", "comms"}

PersistNext ==
    \/ LoadOnMount
    \/ Reload
    \/ \E tab \in PersistTabs : SetActiveTab(tab)
    \/ \E f \in AppMetaFields, v \in AppMetaValues : handleUpdateMeta(f, v)
    \/ \E text \in CommMessages : SetCommMessage(text)
    \/ handleLogCommunication
    \/ \E stored \in BOOLEAN : handleSaveCase(stored)
    \/ SaveStatusTimeout
    \/ \E confirmed \in BOOLEAN : handleResetCase(confirmed)

PersistSpec == PersistInit /\ [][PersistNext]_vars

EditNext ==
    \/ LoadOnMount
    \/ \E tab \in EditTabs : SetActiveTab(tab)
    \/ \E f \in AppMetaFields, v \in AppMetaValues : handleUpdateMeta(f, v)
    \/ \E text \in CommMessages : SetCommMessage(text)
    \/ handleLogCommunication
    \/ \E text \in IssueTexts : SetNewIssueText(text)
    \/ handleCreateIssue
    \/ \E c \in inflight : \E reply \in RepliesTo(c.kind) : CreateIssueResume(c, reply)

EditSpec == EditInit /\ [][EditNext]_vars

FormNext ==
    \/ LoadOnMount
    \/ \E tab \in PersistTabs : SetActiveTab(tab)
    \/ \E text \in CommMessages : SetCommMessage(text)
    \/ \E checked \in BOOLEAN : SetHasPromise(checked)
    \/ \E text \in PromiseDescs : SetPromiseDesc(text)
    \/ \E id \in IssueIds(tenantCase) : handleToggleIssueLink(id)
    \/ handleLogCommunication
    \/ \E confirmed \in BOOLEAN : handleResetCase(confirmed)

FormSpec == PersistInit /\ [][FormNext]_vars

-----------------------------------------------------------------------------
(* Properties of PersistSpec *)

\* the load effect ran in this step
Mounted == phase = "mounting" /\ phase' # "mounting"

\* C11: when the page loads a snapshot written by a save of this run (no later
\* save or reset having replaced or removed it), the active Case becomes
\* exactly the Case as it was at that save: same metadata, same elements in
\* the same order in every collection, nothing kept from the state before.
C11_SaveThenLoadRestores ==
    [][ (Mounted /\ saved # None /\ storage.syntax = "json")
            => tenantCase' = saved[1] ]_vars

\* A populated Case was saved, a communication logged after the save was
\* dropped by the reload, and the load brought back the Case as saved.
C11_Witness ==
    /\ phase = "running"
    /\ saved # None
    /\ tenantCase = saved[1]
    /\ storage = JSONstringify(tenantCase)
    /\ nextId = 2
    /\ Len(tenantCase.issues) = 2
    /\ Len(tenantCase.communications) = 2
    /\ tenantCase.meta.landlord_contact.phone = "555"

-----------------------------------------------------------------------------
(* Properties of EditSpec *)

\* C19: an edit made while a call is outstanding is in the Case at once (the
\* metadata field holds the value written, the logged communication is the
\* last of the communications), and when the call's handler resumes it leaves
\* the metadata and the communications as they are and only appends to the
\* issues and the evidence of the Case as it then is.
C19_EditsSurviveResult ==
    [][ /\ (edited' # edited /\ "meta" \in edited'[1] \ edited[1])
            => /\ inflight # {}
               /\ tenantCase'.meta.landlord_contact.phone \in AppMetaValues
               /\ tenantCase'.communications = tenantCase.communications
        /\ (inflight # {} /\ inflight' = inflight /\ nextId' # nextId)
            => /\ "comm" \in edited'[1]
               /\ Len(tenantCase'.communications) = Len(tenantCase.communications) + 1
               /\ IsPrefix(tenantCase.communications, tenantCase'.communications)
               /\ Last(tenantCase'.communications).tenant_message = commForm.commMessage
               /\ tenantCase'.meta = tenantCase.meta
        /\ Resumed # {}
            => /\ tenantCase'.meta = tenantCase.meta
               /\ tenantCase'.communications = tenantCase.communications
               /\ IsPrefix(tenantCase.issues, tenantCase'.issues)
               /\ IsPrefix(tenantCase.evidence, tenantCase'.evidence) ]_vars

\* During the one call made, the phone was edited and a communication logged;
\* the call then succeeded and its issue stands beside both.
C19_Witness ==
    /\ nextCall = 1
    /\ inflight = {}
    /\ lastDone # None
    /\ ~lastDone[1].alerted
    /\ edited = Some({"meta", "comm"})
    /\ storage.syntax = "none"
    /\ Len(tenantCase.issues) = 1
    /\ Len(tenantCase.communications) = 1
    /\ tenantCase.communications[1].tenant_message = "please fix"
    /\ tenantCase.meta.landlord_contact.phone = "555"

-----------------------------------------------------------------------------
(* TimelineSpec: the drawing effect of TimelineChart                        *)
(*                                                                         *)
(* Times are whole ticks; a position on the x scale is the fraction         *)
(* <<numerator, denominator>> of a pixel count, so that no rounding enters. *)

MaxIssues == 2   \* TimelineSpec: issues passed to the chart
MaxComms == 1    \* TimelineSpec: communications passed to the chart

NaN == -1                 \* the time value of an Invalid Date
NaNPos == << 0, 0 >>      \* NaN as a position
rowHeight == 60
minHeight == 300

\* parseDate(d) = new Date(d), as its time value
parseDate(d) ==
    CASE d = "2024-01-01" -> 0
      [] d = "2024-02-01" -> 20
      [] d = "2024-03-01" -> 40
      [] d = "2024-04-01" -> 60
      [] OTHER -> NaN

TimelineIssue(id, title, date, status) ==
    [ id |-> id, title |-> title, category |-> "General", room |-> "Unspecified",
      severity |-> "medium", status |-> status, first_noticed_at |-> date,
      description |-> "d", habitability_categories |-> << >> ]

TimelineComm(id, date, linked) ==
    [ id |-> id, date |-> date, method |-> "text", tenant_message |-> "please fix",
      landlord_response |-> "", linked_issue_ids |-> linked, promises |-> << >> ]

IssuePool ==
    { TimelineIssue(101, "Leak", "2024-01-01", "ongoing"),
      TimelineIssue(104, "No heat", "2024-02-01", "resolved"),
      TimelineIssue(105, "New Issue", "2024-03-01", "partial"),
      TimelineIssue(106, "New Issue", "last week", "ongoing"),
      TimelineIssue(107, "Noise", "2024-04-01", "ongoing") }

CommPool ==
    { TimelineComm(201, "2024-02-01", << >>),
      TimelineComm(202, "2024-02-01", << 101, 104 >>),
      TimelineComm(203, "2024-03-01", << 999, 101 >>),
      TimelineComm(204, "2024-01-01", << 999 >>),
      TimelineComm(205, "", << 104 >>) }

\* the sequences of at most n distinct elements of S
SeqsOf(S, n) ==
    UNION { { q \in [1..k -> S] : \A i, j \in 1..k : i # j => q[i] # q[j] } :
            k \in 0..n }

Clocks == {40, 41}            \* what new Date() returns at line 52
ClientWidths == {800, 1000}   \* svgRef.current.clientWidth

\* successive readings of the clock: each bar's new Date() is taken at or
\* after the reading before it, the first of them the one used for the domain
BarClocks(now, n) ==
    { q \in [1..n -> {now, now + 1}] : \A i, j \in 1..n : i < j => q[i] <= q[j] }

\* as if the taller of the two heights were not taken
MutMaxTakesSecond(a, b) == b

Max(a, b) == IF a >= b THEN a ELSE b

\* d3.extent: least and greatest of the values that are not NaN
Extent(ts) ==
    LET valid == {ts[i] : i \in DOMAIN ts} \ {NaN}
    IN  << CHOOSE t \in valid : \A u \in valid : t <= u,
           CHOOSE t \in valid : \A u \in valid : t >= u >>

\* scale.nice(): the ends are moved outwards to multiples of the tick interval,
\* the first of these that is at least a tenth of the span (none for a span
\* of zero)
NiceSteps == << 1, 5, 10 >>

NiceStep(span) ==
    LET fit == { i \in DOMAIN NiceSteps : NiceSteps[i] * 10 >= span }
    IN  IF fit = {} THEN Last(NiceSteps)
        ELSE NiceSteps[CHOOSE i \in fit : \A j \in fit : i <= j]

\* as if nice() rounded the ends towards each other
MutNiceInwards(d) ==
    IF d[1] = d[2] THEN d
    ELSE LET st == NiceStep(d[2] - d[1])
         IN  << ((d[1] + st - 1) \div st) * st, (d[2] \div st) * st >>

Nice(d) ==
    IF d[1] = d[2] THEN d
    ELSE LET st == NiceStep(d[2] - d[1])
         IN  << (d[1] \div st) * st, ((d[2] + st - 1) \div st) * st >>

\* x(t) for the scale with domain d and range [0, width]; a domain of one
\* instant maps every time to the middle of the range
XPos(t, d, width) ==
    IF t = NaN THEN NaNPos
    ELSE IF d[1] = d[2] THEN << width, 2 >>
    ELSE << (t - d[1]) * width, d[2] - d[1] >>

\* as if the width were x(end) - x(start) with no minimum
MutBarWidthNoMinimum(start, end, d, width) ==
    IF start = NaN \/ end = NaN THEN NaNPos
    ELSE IF d[1] = d[2] THEN << 0, 2 >>
    ELSE << (end - start) * width, d[2] - d[1] >>

\* Math.max(5, x(end) - x(start))
BarWidth(start, end, d, width) ==
    IF start = NaN \/ end = NaN THEN NaNPos
    ELSE IF d[1] = d[2] THEN << 10, 2 >>
    ELSE << Max(5 * (d[2] - d[1]), (end - start) * width), d[2] - d[1] >>

\* the domain of the band scale: the titles, each once, in order of first use
BandDomain(issues) ==
    LET firstUse == SelectSeq([i \in DOMAIN issues |-> i],
                        LAMBDA i : \A j \in 1..(i - 1) : issues[j].title # issues[i].title)
    IN  [k \in DOMAIN firstUse |-> issues[firstUse[k]].title]

\* the band y(title) is the position of the title in the domain
Band(rows, title) == CHOOSE k \in DOMAIN rows : rows[k] = title

\* as if a linked id were not compared with the issue's id
MutFindAnyIssue(issues, issueId) ==
    IF { i \in DOMAIN issues : issues[i].id = issueId } = {} THEN 0 ELSE 1

\* as if an id that matches nothing fell back to the first issue
MutFindFallsBackToFirst(issues, issueId) ==
    LET hits == { i \in DOMAIN issues : issues[i].id = issueId }
    IN  IF hits = {} THEN (IF issues = << >> THEN 0 ELSE 1)
        ELSE CHOOSE i \in hits : \A j \in hits : i <= j

\* issues.find(i => i.id === issueId): the index of the first match, 0 for none
Find(issues, issueId) ==
    LET hits == { i \in DOMAIN issues : issues[i].id = issueId }
    IN  IF hits = {} THEN 0 ELSE CHOOSE i \in hits : \A j \in hits : i <= j

\* as if the linked flag were never set by a marker on an issue's row
MutCirclesOfNeverLinked(k, comm, issues, rows, d, width) ==
    LET cx == XPos(parseDate(comm.date), d, width)
        found == SelectSeq(comm.linked_issue_ids, LAMBDA id : Find(issues, id) # 0)
    IN  [ j \in DOMAIN found |->
            [ comm |-> k, lane |-> "issue", id |-> found[j],
              issue |-> Find(issues, found[j]),
              row |-> Band(rows, issues[Find(issues, found[j])].title),
              cx |-> cx ] ]
        \o << [ comm |-> k, lane |-> "general", id |-> NoId, issue |-> 0,
                row |-> 0, cx |-> cx ] >>

\* the circles one communication appends: one per linked id that finds an
\* issue, else one on the top line
CirclesOf(k, comm, issues, rows, d, width) ==
    LET cx == XPos(parseDate(comm.date), d, width)
        found == SelectSeq(comm.linked_issue_ids, LAMBDA id : Find(issues, id) # 0)
    IN  IF found # << >>
        THEN [ j \in DOMAIN found |->
                 [ comm |-> k, lane |-> "issue", id |-> found[j],
                   issue |-> Find(issues, found[j]),
                   row |-> Band(rows, issues[Find(issues, found[j])].title),
                   cx |-> cx ] ]
        ELSE << [ comm |-> k, lane |-> "general", id |-> NoId, issue |-> 0,
                  row |-> 0, cx |-> cx ] >>

RECURSIVE AllCircles(_, _, _, _, _, _)
AllCircles(k, comms, issues, rows, d, width) ==
    IF k > Len(comms) THEN << >>
    ELSE CirclesOf(k, comms[k], issues, rows, d, width)
         \o AllCircles(k + 1, comms, issues, rows, d, width)

\* What one run of the effect leaves in the svg, with the inputs it had.
Drawing(issues, communications, clientWidth, now, barNow) ==
    LET totalHeight == Max(minHeight, Len(issues) * rowHeight)
        inputs == [ issues |-> issues, communications |-> communications,
                    clientWidth |-> clientWidth, now |-> now, barNow |-> barNow,
                    height |-> totalHeight + 30 + 40 ]
    IN  IF Len(issues) = 0 /\ Len(communications) = 0
        THEN inputs @@ [ empty |-> TRUE, text |-> "No timeline data yet",
                         domain |-> << >>, rows |-> << >>, bars |-> << >>,
                         circles |-> << >>, axes |-> 0 ]
        ELSE LET width == clientWidth - 180 - 30
                 allDates == [i \in DOMAIN issues |-> parseDate(issues[i].first_noticed_at)]
                             \o [i \in DOMAIN communications |->
                                    parseDate(communications[i].date)]
                             \o << now >>
                 d == Nice(Extent(allDates))
                 rows == BandDomain(issues)
             IN  inputs @@
                 [ empty |-> FALSE, text |-> "", domain |-> d, rows |-> rows,
                   bars |-> [ i \in DOMAIN issues |->
                               [ row |-> Band(rows, issues[i].title),
                                 x |-> XPos(parseDate(issues[i].first_noticed_at), d, width),
                                 width |-> BarWidth(parseDate(issues[i].first_noticed_at),
                                                    barNow[i], d, width) ] ],
                   circles |-> AllCircles(1, communications, issues, rows, d, width),
                   axes |-> 2 ]

TimelineInit ==
    /\ chart = None
    /\ phase = "timeline"
    /\ tenantCase = EMPTY_CASE
    /\ storage = [syntax |-> "none"]
    /\ activeTab = "issues"
    /\ isAnalyzing = FALSE
    /\ newIssueText = ""
    /\ newIssueImage = NoFile
    /\ reportData = None
    /\ uploadingIssueId = NoId
    /\ dialogOpen = FALSE
    /\ inflight = {}
    /\ nextCall = 0
    /\ nextId = 0
    /\ lastDone = None
    /\ dispatched = <<>>
    /\ built = <<>>
    /\ saveStatus = "idle"
    /\ saveTimers = 0
    /\ commForm = EmptyCommForm
    /\ saved = None
    /\ edited = None
    /\ preReset = None

TimelineFrame ==
    UNCHANGED << tenantCase, storage, phase, activeTab, isAnalyzing, newIssueText,
                 newIssueImage, reportData, uploadingIssueId, dialogOpen, inflight,
                 nextCall, nextId, lastDone, dispatched, built, saveStatus,
                 saveTimers, commForm, saved, edited, preReset >>

\* the effect runs for the props of the first render (svg.selectAll("*")
\* .remove() makes every run start from an empty svg)
Draw(issues, communications, clientWidth, now, barNow) ==
    /\ chart = None
    /\ chart' = Some(Drawing(issues, communications, clientWidth, now, barNow))
    /\ TimelineFrame

\* the effect runs again for lists with the same content
Redraw(clientWidth, now, barNow) ==
    /\ chart # None
    /\ chart' = Some(Drawing(chart[1].issues, chart[1].communications,
                             clientWidth, now, barNow))
    /\ TimelineFrame

TimelineNext ==
    \/ /\ chart = None
       /\ \E issues \in SeqsOf(IssuePool, MaxIssues),
            communications \in SeqsOf(CommPool, MaxComms),
            clientWidth \in ClientWidths, now \in Clocks :
              \E barNow \in BarClocks(now, Len(issues)) :
                  Draw(issues, communications, clientWidth, now, barNow)
    \/ /\ chart # None
       /\ \E clientWidth \in ClientWidths, now \in Clocks :
            \E barNow \in BarClocks(now, Len(chart[1].issues)) :
                Redraw(clientWidth, now, barNow)

TimelineSpec == TimelineInit /\ [][TimelineNext]_vars

-----------------------------------------------------------------------------
(* Properties of TimelineSpec *)

\* the chart drawn for at least one issue or communication
Drawn == chart # None /\ ~chart[1].empty

ChartWidth(c) == c.clientWidth - 180 - 30

\* what the drawing shows, without the inputs it was made from
LayoutOf(c) ==
    [ height |-> c.height, domain |-> c.domain, rows |-> c.rows, bars |-> c.bars,
      circles |-> c.circles ]

\* the ids of the issues passed to the chart
ChartIssueIds(c) == { c.issues[i].id : i \in DOMAIN c.issues }

\* the circles of communication k that sit on issue rows
RowCircles(c, k) ==
    SelectSeq(c.circles, LAMBDA m : m.comm = k /\ m.lane = "issue")

\* the sum of two positions over the same denominator
PosAdd(a, b) == << a[1] + b[1], a[2] >>

\* a width of at least 5 pixels
AtLeastMinimum(w) == w # NaNPos /\ w[1] >= 5 * w[2]

IsMinimum(w) == w # NaNPos /\ w[1] = 5 * w[2]

\* C12 (as claimed): one computation uses a single now for the domain and
\* for every bar, and a computation repeated with the same issues, the same
\* communications and the same now gives the same rows, bars and markers.
C12_LayoutFunctionOfInputs ==
    [][ chart' # None =>
          /\ \A i \in DOMAIN chart'[1].barNow : chart'[1].barNow[i] = chart'[1].now
          /\ (chart # None /\ chart'[1].now = chart[1].now)
                => LayoutOf(chart'[1]) = LayoutOf(chart[1]) ]_vars

\* C13: for a chart of at least one issue or communication, the time domain
\* starts at or before, and ends at or after, every issue's first-noticed
\* time, every communication's time and now.
C13_DomainContainsInputs ==
    Drawn =>
        LET c == chart[1]
            times == { parseDate(c.issues[i].first_noticed_at) : i \in DOMAIN c.issues }
                     \cup { parseDate(c.communications[k].date) :
                              k \in DOMAIN c.communications }
                     \cup { c.now }
        IN  \A t \in times \ {NaN} : c.domain[1] <= t /\ t <= c.domain[2]

\* Dates on both sides of now's day, now not on a tick: the domain was widened.
C13_Witness ==
    /\ Drawn
    /\ Len(chart[1].issues) = 2
    /\ Len(chart[1].communications) = 1
    /\ chart[1].now = 41
    /\ chart[1].domain = << 0, 45 >>

\* C14: a communication gets exactly one row marker for each linked id that is
\* the id of a supplied issue, in the order linked, on the row of that issue's
\* bar and at the communication's date; linked to A and B, both supplied, it
\* gets two, one on A's row and one on B's.
C14_OneMarkerPerResolvedLink ==
    Drawn =>
        LET c == chart[1] IN
        \A k \in DOMAIN c.communications :
            LET resolved == SelectSeq(c.communications[k].linked_issue_ids,
                                      LAMBDA id : id \in ChartIssueIds(c))
                ms == RowCircles(c, k)
            IN  /\ Len(ms) = Len(resolved)
                /\ \A j \in DOMAIN ms :
                     /\ c.issues[ms[j].issue].id = resolved[j]
                     /\ ms[j].row = c.bars[ms[j].issue].row
                     /\ ms[j].cx = XPos(parseDate(c.communications[k].date),
                                        c.domain, ChartWidth(c))

\* A communication linked to two supplied issues has a marker on each one's row.
C14_Witness ==
    /\ Drawn
    /\ Len(chart[1].communications) = 1
    /\ chart[1].communications[1].linked_issue_ids = << 101, 104 >>
    /\ { chart[1].issues[i].id : i \in DOMAIN chart[1].issues } = {101, 104}
    /\ Len(RowCircles(chart[1], 1)) = 2
    /\ RowCircles(chart[1], 1)[1].row # RowCircles(chart[1], 1)[2].row

\* C15: a linked id that is the id of no supplied issue gets no row marker and
\* stops nothing: the chart is drawn, with a bar for every issue, and the
\* communication's other linked ids, those of supplied issues, have their
\* markers.
C15_DanglingLinkSkipped ==
    chart # None =>
        LET c == chart[1] IN
        \A k \in DOMAIN c.communications :
            LET linked == c.communications[k].linked_issue_ids
                dangling == { linked[i] : i \in DOMAIN linked } \ ChartIssueIds(c)
            IN  dangling # {} =>
                  /\ ~c.empty
                  /\ Len(c.bars) = Len(c.issues)
                  /\ \A i \in DOMAIN c.circles :
                        c.circles[i].comm = k => c.circles[i].id \notin dangling
                  /\ \A i \in DOMAIN linked :
                        linked[i] \in ChartIssueIds(c) =>
                            \E j \in DOMAIN c.circles :
                                /\ c.circles[j].comm = k
                                /\ c.circles[j].lane = "issue"
                                /\ c.circles[j].id = linked[i]

\* Linked to a missing id and to a supplied issue: one row marker, for the latter.
C15_Witness ==
    /\ Drawn
    /\ Len(chart[1].communications) = 1
    /\ chart[1].communications[1].linked_issue_ids = << 999, 101 >>
    /\ 101 \in ChartIssueIds(chart[1])
    /\ Len(RowCircles(chart[1], 1)) = 1
    /\ RowCircles(chart[1], 1)[1].id = 101

\* C16 (as claimed): the chart has one row per supplied issue, the i-th issue
\* on the i-th row, so that no two issues share a row.
C16_OneRowPerIssue ==
    Drawn =>
        /\ Len(chart[1].rows) = Len(chart[1].issues)
        /\ \A i \in DOMAIN chart[1].bars : chart[1].bars[i].row = i

\* C17 (as claimed): every issue's bar starts at its first-noticed time and has
\* at least the minimum width; where the minimum does not apply it ends at
\* now, the now of the domain.
C17_BarFromFirstNoticedToNow ==
    Drawn =>
        LET c == chart[1] IN
        \A i \in DOMAIN c.bars :
            LET b == c.bars[i]
                start == parseDate(c.issues[i].first_noticed_at)
            IN  /\ start # NaN
                /\ b.x = XPos(start, c.domain, ChartWidth(c))
                /\ AtLeastMinimum(b.width)
                /\ \/ IsMinimum(b.width)
                   \/ PosAdd(b.x, b.width) = XPos(c.now, c.domain, ChartWidth(c))

\* C17 (amended): whatever its status, an issue whose first-noticed date parses
\* has a bar that starts at that time, is at least the minimum wide and, where
\* the minimum does not apply, ends at the clock reading taken for that bar,
\* which is never before the now of the domain; an issue whose date does not
\* parse has a bar with no position and no width.
C17_BarFromFirstNoticedToClock ==
    Drawn =>
        LET c == chart[1] IN
        \A i \in DOMAIN c.bars :
            LET b == c.bars[i]
                start == parseDate(c.issues[i].first_noticed_at)
            IN  IF start = NaN
                THEN b.x = NaNPos /\ b.width = NaNPos
                ELSE /\ b.x = XPos(start, c.domain, ChartWidth(c))
                     /\ AtLeastMinimum(b.width)
                     /\ c.barNow[i] >= c.now
                     /\ \/ IsMinimum(b.width)
                        \/ PosAdd(b.x, b.width)
                             = XPos(c.barNow[i], c.domain, ChartWidth(c))

\* One issue first noticed 2024-01-01, now 2024-03-01, no communications: one
\* row, its bar from the one to the other, no marker.
C17_Witness ==
    /\ Drawn
    /\ Len(chart[1].issues) = 1
    /\ chart[1].issues[1].first_noticed_at = "2024-01-01"
    /\ chart[1].communications = << >>
    /\ chart[1].now = parseDate("2024-03-01")
    /\ chart[1].barNow = << chart[1].now >>
    /\ chart[1].rows = << "Leak" >>
    /\ chart[1].bars[1].x = XPos(0, chart[1].domain, ChartWidth(chart[1]))
    /\ PosAdd(chart[1].bars[1].x, chart[1].bars[1].width)
         = XPos(40, chart[1].domain, ChartWidth(chart[1]))
    /\ ~IsMinimum(chart[1].bars[1].width)
    /\ chart[1].circles = << >>

\* C18: with no issue and no communication the svg holds the placeholder text
\* alone, at the fixed height, with no row, bar, marker or axis; with an issue
\* or a communication it holds the chart: the axes and a bar per issue.
C18_EmptyInputsGivePlaceholder ==
    chart # None =>
        LET c == chart[1] IN
        /\ c.empty <=> (c.issues = << >> /\ c.communications = << >>)
        /\ c.empty =>
             /\ c.height = minHeight + 30 + 40
             /\ c.text = "No timeline data yet"
             /\ c.rows = << >> /\ c.bars = << >> /\ c.circles = << >>
             /\ c.domain = << >> /\ c.axes = 0
        /\ ~c.empty =>
             /\ c.axes = 2
             /\ Len(c.domain) = 2
             /\ Len(c.bars) = Len(c.issues)
             /\ c.text = ""

C18_Witness ==
    /\ chart # None
    /\ chart[1].empty
    /\ chart[1].height = 370
    /\ chart[1].bars = << >>

\* the markers communication k has on the general lane
GeneralCircles(c, k) ==
    SelectSeq(c.circles, LAMBDA m : m.comm = k /\ m.lane = "general")

\* C21: a communication has a marker on the general lane exactly when its
\* linked_issue_ids is empty, and then one: the general lane holds as many
\* markers as there are communications with no linked ids, and none of a
\* communication with linked ids.
C21_GeneralLaneIffNoLinkedIds ==
    Drawn =>
        LET c == chart[1] IN
        /\ \A k \in DOMAIN c.communications :
              Len(GeneralCircles(c, k)) =
                  IF c.communications[k].linked_issue_ids = << >> THEN 1 ELSE 0
        /\ Cardinality({ i \in DOMAIN c.circles : c.circles[i].lane = "general" })
             = Cardinality({ k \in DOMAIN c.communications :
                               c.communications[k].linked_issue_ids = << >> })

\* C21, as the code has it: a communication has a marker on the general lane
\* exactly when none of its linked ids is the id of a supplied issue (so also
\* when it has linked ids and every one of them is dangling), and then one,
\* at the communication's date, and no marker on any row.
C21_GeneralLaneIffNoResolvedLink ==
    Drawn =>
        LET c == chart[1] IN
        /\ \A k \in DOMAIN c.communications :
              LET linked == c.communications[k].linked_issue_ids
                  unresolved == \A i \in DOMAIN linked : linked[i] \notin ChartIssueIds(c)
                  gs == GeneralCircles(c, k)
              IN  /\ Len(gs) = IF unresolved THEN 1 ELSE 0
                  /\ unresolved <=> RowCircles(c, k) = << >>
                  /\ \A j \in DOMAIN gs :
                        gs[j].cx = XPos(parseDate(c.communications[k].date),
                                        c.domain, ChartWidth(c))
        /\ Cardinality({ i \in DOMAIN c.circles : c.circles[i].lane = "general" })
             = Cardinality({ k \in DOMAIN c.communications :
                   \A i \in DOMAIN c.communications[k].linked_issue_ids :
                       c.communications[k].linked_issue_ids[i] \notin ChartIssueIds(c) })

\* A communication linked only to a missing id, drawn with an issue: its one
\* marker is on the general lane.
C21_Witness ==
    /\ Drawn
    /\ Len(chart[1].issues) = 1
    /\ Len(chart[1].communications) = 1
    /\ chart[1].communications[1].linked_issue_ids = << 999 >>
    /\ Len(GeneralCircles(chart[1], 1)) = 1
    /\ Len(chart[1].circles) = 1

-----------------------------------------------------------------------------
(* Properties of StoreSpec: the frame of each action *)

\* the Case's parts other than the one named
OtherParts(c, part) == [k \in (DOMAIN c) \ {part} |-> c[k]]

\* C22: each dispatch changes only its own part of the Case. ADD_ISSUE leaves
\* metadata, evidence and communications as they were and makes issues one
\* longer; ADD_EVIDENCE and ADD_COMMUNICATION do the same for their
\* collection; UPDATE_META (dispatched directly or by handleUpdateMeta)
\* leaves the three collections as they were; an action with no case in the
\* reducer (SET_REPORT) leaves the whole Case as it was.
C22_MutationChangesOwnPartOnly ==
    [][ LET a == Last(dispatched').action IN
        /\ a.type = "ADD_ISSUE" =>
              /\ OtherParts(tenantCase', "issues") = OtherParts(tenantCase, "issues")
              /\ tenantCase'.issues = Append(tenantCase.issues, a.payload)
              /\ Len(tenantCase'.issues) = Len(tenantCase.issues) + 1
        /\ a.type = "ADD_EVIDENCE" =>
              /\ OtherParts(tenantCase', "evidence") = OtherParts(tenantCase, "evidence")
              /\ tenantCase'.evidence = Append(tenantCase.evidence, a.payload)
        /\ a.type = "ADD_COMMUNICATION" =>
              /\ OtherParts(tenantCase', "communications")
                   = OtherParts(tenantCase, "communications")
              /\ tenantCase'.communications
                   = Append(tenantCase.communications, a.payload)
        /\ a.type = "UPDATE_META" =>
              OtherParts(tenantCase', "meta") = OtherParts(tenantCase, "meta")
        /\ a.type = "SET_REPORT" => tenantCase' = tenantCase ]_vars

\* An issue added to a Case that has metadata, evidence and a communication,
\* then a SET_REPORT.
C22_Witness ==
    /\ Len(dispatched) = 3
    /\ dispatched[1].action.type = "LOAD_CASE"
    /\ dispatched[2].action.type = "ADD_ISSUE"
    /\ dispatched[3].action.type = "SET_REPORT"
    /\ Len(tenantCase.issues) = Len(SampleCase.issues) + 1
    /\ OtherParts(tenantCase, "issues") = OtherParts(SampleCase, "issues")

-----------------------------------------------------------------------------
(* Properties of Spec: the report and the Case *)

\* the calls started in this step
Started == inflight' \ inflight

ReportKeys == {"snippet", "timeline", "pattern"}

\* C23: generating a report never changes the Case. The step that starts a
\* report call and the step in which its handler resumes, with a report or
\* with a failure, leave the Case as it was; a successful call stores a
\* report with all three narrative fields, a field the response lacks as the
\* empty string.
C23_ReportLeavesCase ==
    [][ /\ \A c \in Started : c.kind = "report" => tenantCase' = tenantCase
        /\ \A c \in Resumed :
              c.kind = "report" =>
                  /\ tenantCase' = tenantCase
                  /\ ~FailedReply(lastDone'[1].reply) =>
                        LET response == lastDone'[1].reply.value[1] IN
                        /\ reportData' # None
                        /\ DOMAIN reportData'[1] = ReportKeys
                        /\ reportData'[1].snippet = PropOr(response, "report_snippet", "")
                        /\ reportData'[1].timeline = PropOr(response, "timeline_summary", "")
                        /\ reportData'[1].pattern = PropOr(response, "pattern_summary", "") ]_vars

\* A report generated for a Case that has issues, from a response without a
\* pattern_summary.
C23_Witness ==
    /\ lastDone # None
    /\ lastDone[1].kind = "report"
    /\ ~FailedReply(lastDone[1].reply)
    /\ "pattern_summary" \notin DOMAIN lastDone[1].reply.value[1]
    /\ reportData # None
    /\ reportData[1].pattern = ""
    /\ reportData[1].snippet = "# Notice"
    /\ IsCase(tenantCase)
    /\ tenantCase.issues # << >>

-----------------------------------------------------------------------------
(* Properties of FormSpec *)

\* the step is one of a mounted component
Running == phase = "running" /\ phase' = "running"

\* handleLogCommunication got past its first line in this step
Logged == Running /\ nextId' # nextId

\* C24: a communication appended by handleLogCommunication carries one promise
\* when the promise box is checked and the description is not empty, else
\* none; the promise has status unknown, promised_by "Landlord" and the
\* description typed. No step changes the promises of a communication that
\* stays in the Case. With an empty tenant message nothing is appended.
C24_AtMostOnePromiseStatusUnknown ==
    [][ Running =>
          LET old == tenantCase.communications
              new == tenantCase'.communications
          IN  /\ Logged =>
                    /\ new = Append(old, Last(new))
                    /\ commForm.commMessage # ""
                    /\ Last(new).tenant_message = commForm.commMessage
                    /\ Len(Last(new).promises) =
                         IF commForm.hasPromise /\ commForm.promiseDesc # ""
                         THEN 1 ELSE 0
                    /\ \A i \in DOMAIN Last(new).promises :
                          /\ Last(new).promises[i].status = "unknown"
                          /\ Last(new).promises[i].promised_by = "Landlord"
                          /\ Last(new).promises[i].description = commForm.promiseDesc
              /\ commForm.commMessage = "" => Len(new) <= Len(old)
              /\ \A i \in DOMAIN old \cap DOMAIN new :
                    new[i].promises = old[i].promises ]_vars

\* A communication logged with the box checked and a description: it is the
\* Case's last communication and carries one promise of status unknown; the
\* form is empty again.
C24_Witness ==
    /\ phase = "running"
    /\ nextId = 2
    /\ tenantCase.communications # << >>
    /\ Len(Last(tenantCase.communications).promises) = 1
    /\ Last(tenantCase.communications).promises[1].status = "unknown"
    /\ Last(tenantCase.communications).promises[1].description = "fix by Friday"
    /\ commForm.commMessage = ""
    /\ ~commForm.hasPromise

-----------------------------------------------------------------------------
(* Properties of Spec: the busy flag *)

\* C25: isAnalyzing is true in every state in which a collaborator call is in
\* flight, and at most one collaborator call is in flight at a time.
C25_BusyWhileCallInFlight ==
    /\ inflight # {} => isAnalyzing
    /\ Cardinality(inflight) <= 1

-----------------------------------------------------------------------------
(* ResetSpec: Spec, recording at each confirmed reset the calls in flight *)

ResetInit ==
    /\ tenantCase = EMPTY_CASE
    /\ storage \in InitialSnapshots
    /\ phase = "mounting"
    /\ activeTab = "meta"
    /\ isAnalyzing = FALSE
    /\ newIssueText = ""
    /\ newIssueImage = NoFile
    /\ reportData = None
    /\ uploadingIssueId = NoId
    /\ dialogOpen = FALSE
    /\ inflight = {}
    /\ nextCall = 0
    /\ nextId = 0
    /\ lastDone = None
    /\ dispatched = <<>>
    /\ built = <<>>
    /\ saveStatus = "idle"
    /\ saveTimers = 0
    /\ commForm = EmptyCommForm
    /\ saved = None
    /\ edited = None
    /\ chart = None
    /\ preReset = Some({})

ResetSpec == ResetInit /\ [][Next]_vars

\* the call was in flight when the user confirmed a reset
StartedBeforeReset(c) == c.n \in preReset[1]

\* C26: the result of a classifier or report call that was started before a
\* confirmed reset is never applied to the Case or shown as its report: the
\* step in which such a call's handler resumes leaves the Case and the report
\* as they were (empty and absent, if the user did nothing since the reset).
C26_StaleResultNotApplied ==
    [][ \A c \in Resumed :
            StartedBeforeReset(c) =>
                /\ tenantCase' = tenantCase
                /\ reportData' = reportData ]_vars

-----------------------------------------------------------------------------
(* Properties of FormSpec: the issue links *)

NoDuplicates(q) == \A i, j \in DOMAIN q : i # j => q[i] # q[j]

\* C27: every communication appended by handleLogCommunication has
\* linked_issue_ids without duplicates, all of them ids of issues the Case
\* holds when it is appended; after the step the pending selection is empty.
C27_LinksReferToIssues ==
    [][ Logged =>
          LET linked == Last(tenantCase'.communications).linked_issue_ids IN
          /\ NoDuplicates(linked)
          /\ \A i \in DOMAIN linked : linked[i] \in IssueIds(tenantCase')
          /\ commForm'.commLinkedIssues = << >> ]_vars

-----------------------------------------------------------------------------
(* MetaSpec: handleUpdateMeta called from the closure of the latest render   *)
(* or again from the closure the call before it came from                   *)

\* the Case of the render whose handleUpdateMeta made the last call: the Case
\* before the last call that came from a new render
RenderedCase ==
    LET fresh == { i \in DOMAIN dispatched : Len(dispatched[i].call) = 2 }
        r == CHOOSE i \in fresh : \A j \in fresh : j <= i
    IN  ApplyAll(EMPTY_CASE, [k \in 1..(r - 1) |-> dispatched[k].action])

\* handleUpdateMeta(field, value) called a second time before the component
\* has rendered again: the closure still holds the Case of that render
StoreUpdateMetaSameRender(field, value) ==
    /\ Len(dispatched) < MaxDispatch
    /\ dispatched # << >>
    /\ Last(dispatched).call # << >>
    /\ LET a == UpdateMetaAction(RenderedCase, field, value) IN
         /\ tenantCase' = caseReducer(tenantCase, a)
         /\ dispatched' = Append(dispatched,
                                 [action |-> a, call |-> <<field, value, "same render">>])
    /\ UNCHANGED << appVars, phase, built, auxVars >>

MetaNext ==
    \/ \E f \in MetaFields, v \in MetaValues : StoreUpdateMeta(f, v)
    \/ \E f \in MetaFields, v \in MetaValues : StoreUpdateMetaSameRender(f, v)

MetaSpec == StoreInit /\ [][MetaNext]_vars

\* C28: after any sequence of handleUpdateMeta calls, every field of a
\* sub-object holds the value of the latest call that wrote it, also when a
\* call is made before the component has rendered the result of the call
\* before it: no earlier write to a sibling field is lost.
C28_LatestWritePerField ==
    \A i \in DOMAIN dispatched :
        LET field == dispatched[i].call[1]
            later == { j \in DOMAIN dispatched : j > i /\ dispatched[j].call[1] = field }
        IN  (Len(field) = 2 /\ later = {}) =>
                tenantCase.meta[field[1]][field[2]] = dispatched[i].call[2]

-----------------------------------------------------------------------------
(* SnapshotSpec: the App component with the save button and the             *)
(* communication log next to the handlers that make calls                   *)

MaxSnapshotCalls == 1   \* SnapshotSpec: collaborator calls started in one run

SnapshotNext ==
    \/ LoadOnMount
    \/ \E tab \in Tabs : SetActiveTab(tab)
    \/ \E text \in IssueTexts : SetNewIssueText(text)
    \/ \E confirmed \in BOOLEAN : handleResetCase(confirmed)
    \/ \E f \in AppMetaFields, v \in AppMetaValues : handleUpdateMeta(f, v)
    \/ nextCall < MaxSnapshotCalls /\ handleCreateIssue
    \/ \E c \in inflight : \E reply \in RepliesTo(c.kind) : CreateIssueResume(c, reply)
    \/ \E id \in IssueIds(tenantCase) : handleRequestAddEvidence(id)
    \/ CancelFileDialog
    \/ \E file \in IssueImages :
          (file # NoFile => nextCall < MaxSnapshotCalls) /\ handleEvidenceUpload(file)
    \/ \E c \in inflight : \E reply \in RepliesTo(c.kind) : EvidenceUploadResume(c, reply)
    \/ nextCall < MaxSnapshotCalls /\ handleGenerateReport
    \/ \E c \in inflight : \E reply \in RepliesTo(c.kind) : GenerateReportResume(c, reply)
    \/ \E stored \in BOOLEAN : handleSaveCase(stored)
    \/ SaveStatusTimeout
    \/ \E text \in CommMessages : SetCommMessage(text)
    \/ handleLogCommunication

SnapshotSpec == PersistInit /\ [][SnapshotNext]_vars

\* C29: the persisted snapshot changes only in a save, where it becomes the
\* text of the whole current Case, and in a confirmed reset, where it becomes
\* absent. A step that adds an issue, evidence or a communication, edits the
\* metadata, or starts or ends a call (a report among them) leaves it as it
\* was; a declined reset changes nothing at all.
C29_SnapshotChangesOnSaveOrReset ==
    [][ /\ storage' # storage =>
              \/ /\ storage' = JSONstringify(tenantCase)
                 /\ saved' = Some(tenantCase)
                 /\ tenantCase' = tenantCase
              \/ /\ storage' = [syntax |-> "none"]
                 /\ tenantCase' = EMPTY_CASE
                 /\ activeTab' = "meta"
                 /\ reportData' = None
        /\ (tenantCase' # tenantCase /\ tenantCase' # EMPTY_CASE) => storage' = storage
        /\ (reportData' # reportData /\ reportData' # None) => storage' = storage
        /\ (Started # {} \/ Resumed # {}) => storage' = storage ]_vars

\* A Case was saved, then an issue was added by a call: the snapshot is still
\* the text of the Case as saved.
C29_Witness ==
    /\ phase = "running"
    /\ saved # None
    /\ storage = JSONstringify(saved[1])
    /\ lastDone # None
    /\ lastDone[1].kind = "create"
    /\ ~FailedReply(lastDone[1].reply)
    /\ IsCase(tenantCase)
    /\ Len(tenantCase.issues) = Len(saved[1].issues) + 1
    /\ tenantCase.meta.landlord_contact.phone = "555"
    /\ saved[1].meta.landlord_contact.phone # "555"

-----------------------------------------------------------------------------
(* Properties of Spec: what a create-issue attempt appends *)

\* C30: a create-issue attempt that succeeds appends one issue and at most one
\* evidence item; the evidence item is appended only when an image was
\* attached, holds that image and the id of the issue just appended, and is
\* dispatched after the issue. While the form has neither text nor image no
\* create-issue call is started.
C30_CreateAppendsOneIssue ==
    [][ /\ \A c \in Resumed :
              (c.kind = "create" /\ ~FailedReply(lastDone'[1].reply) /\ IsCase(tenantCase)) =>
                  LET actions == CreateIssueActions(c, lastDone'[1].reply.value[1])
                      issue == Last(tenantCase'.issues)
                  IN  /\ tenantCase'.issues = Append(tenantCase.issues, issue)
                      /\ tenantCase'.meta = tenantCase.meta
                      /\ tenantCase'.communications = tenantCase.communications
                      /\ actions[1].type = "ADD_ISSUE"
                      /\ \A k \in 2..Len(actions) : actions[k].type = "ADD_EVIDENCE"
                      /\ \/ tenantCase'.evidence = tenantCase.evidence
                         \/ /\ c.image # NoFile
                            /\ tenantCase'.evidence
                                 = Append(tenantCase.evidence, Last(tenantCase'.evidence))
                            /\ Last(tenantCase'.evidence).issue_id = issue.id
                            /\ Last(tenantCase'.evidence).file_reference
                                 = FileToBase64(c.image)
        /\ (newIssueText = "" /\ newIssueImage = NoFile) =>
              \A c \in Started : c.kind # "create" ]_vars

\* An attempt with a photo attached succeeded: the Case's last issue is new
\* and its last evidence item holds the photo and that issue's id.
C30_Witness ==
    /\ lastDone # None
    /\ lastDone[1].kind = "create"
    /\ ~FailedReply(lastDone[1].reply)
    /\ IsCase(tenantCase)
    /\ tenantCase.issues # << >>
    /\ tenantCase.evidence # << >>
    /\ Last(tenantCase.evidence).issue_id = Last(tenantCase.issues).id
    /\ Last(tenantCase.evidence).file_reference = FileToBase64("photo.jpg")
    /\ Last(tenantCase.issues).id \notin {101, 104}
    /\ newIssueImage = NoFile
    /\ newIssueText = ""

====
